---- MODULE Spec2Model ----
(***************************************************************************)
(* Message routing and agent dispatch of wapu-api: NLIRouter.route_message *)
(* (core/nli.py), the classifier RouterAgent.analyze_intent and the        *)
(* process_message handlers of the agents the router dispatches to.        *)
(*                                                                         *)
(* Conventions of the model                                                *)
(*  - A Python str whose characters the code inspects (the user message,   *)
(*    a history turn) is a sequence of one-character strings.  Texts the   *)
(*    code only passes on (exception messages, LLM replies) are strings.   *)
(*  - A Python dict the code only reads by key is a record; the request    *)
(*    context, which the code also iterates, is an ordered sequence of     *)
(*    [key, val] items.  A value whose Python type varies carries a tag k. *)
(*  - Floats the code only passes on (confidence) are in hundredths;       *)
(*    amounts and prices are exact fractions [num, den].                   *)
(*  - Every external collaborator (LLM, price API, RPC, image API) is an   *)
(*    input: each call draws its outcome from a small set.                 *)
(*                                                                         *)
(* Specifications                                                          *)
(*  - Spec: sequences of route_message calls on one NLIRouter.             *)
(*  - SpecFn: single calls of AIAgent's number extraction, of             *)
(*    calculate_crypto_amount and of TradingAgent.process_message.         *)
(*  - SpecCache: concurrent calls of the cached fetch of one RiskAgent or  *)
(*    HistoricalDataService, with a clock and cancellation.                *)
(*  - SpecHistory: successive analyze_pool and get_historical_performance  *)
(*    calls on one RiskAgent, each with the HistoricalDataService it       *)
(*    constructs.                                                          *)
(*  - SpecView: requests to the agent endpoint (api/views.py) followed     *)
(*    through validation and the one route_message call they make.         *)
(*  - SpecWait: one request blocked in its external calls, with fairness   *)
(*    for the code and for the client libraries that time out.             *)
(***************************************************************************)
EXTENDS Integers, Sequences, FiniteSets, TLC

\* one route_message call at a time on one NLIRouter: the call's position
\* and locals, the prompt the classifier built, and per agent whether the
\* router's field holds an instance and how often its class was constructed
VARIABLES pc, message, context, delegate, routing, collab, outcome, result, calls, instances,
          classifier_prompt, constructed

\* one call of a function of AIAgent: its arguments and what it returned
VARIABLES fcall, fret

\* one caching service (a RiskAgent or a HistoricalDataService) and the
\* coroutines calling its cached fetch: the service's cache fields, the
\* wall clock, and per coroutine its position and locals
VARIABLES service, pool_data_cache, cache_timestamp, clock, ticks, fetches, task,
          stored_at, completed

\* one request followed through its external calls: the position of the
\* request, its message, the call it is blocked in, the calls still to come
\* and the phase of the clock while it is blocked
VARIABLES wpc, wmessage, wcall, wplan, wclock

\* one request to the agent endpoint: the position of the view, request.data,
\* the Response returned and the route_message calls the view has made
VARIABLES vpc, request, view_response, routed

\* the calls of analyze_pool and get_historical_performance made so far on
\* one RiskAgent: which, when, and whether the history came from a cache
VARIABLES history_log

vars == <<pc, message, context, delegate, routing, collab, outcome, result, calls, instances,
          classifier_prompt, constructed,
          fcall, fret,
          service, pool_data_cache, cache_timestamp, clock, ticks, fetches, task,
          stored_at, completed,
          wpc, wmessage, wcall, wplan, wclock,
          vpc, request, view_response, routed,
          history_log>>

histVars == <<history_log>>

viewVars == <<vpc, request, view_response, routed>>

waitVars == <<wpc, wmessage, wcall, wplan, wclock>>

routerVars == <<pc, message, context, delegate, routing, collab, outcome, result, calls, instances,
                classifier_prompt, constructed>>

fnVars == <<fcall, fret>>

cacheVars == <<service, pool_data_cache, cache_timestamp, clock, ticks, fetches, task,
               stored_at, completed>>

\* what the steps of route_message leave alone
routerFrame == <<fnVars, cacheVars, waitVars, viewVars, histVars>>

\* what a call of a function of AIAgent leaves alone
fnFrame == <<routerVars, cacheVars, waitVars, viewVars, histVars>>

\* what the cached fetches leave alone
cacheFrame == <<routerVars, fnVars, waitVars, viewVars, histVars>>

\* what the external calls of a request leave alone
waitFrame == <<routerVars, fnVars, cacheVars, viewVars, histVars>>

\* what the agent endpoint leaves alone besides the router it calls
viewFrame == <<fnVars, cacheVars, waitVars, histVars>>

\* what analyze_pool and get_historical_performance leave alone besides
\* the fields of the RiskAgent
histFrame == <<routerVars, fnVars, waitVars, viewVars>>

(***************************************************************************)
(* Bounds                                                                  *)
(***************************************************************************)
MaxHistory == 1

\* longest word handed to the number extraction
MaxWordLen == 3

\* coroutines calling one service's cached fetch at the same time
MaxTasks == 2

\* advances of the wall clock
MaxTicks == 1

\* invocations of the underlying fetch
MaxFetches == 2

\* calls of analyze_pool and get_historical_performance followed
MaxCalls == 3

\* phases of the clock a blocked request can tell apart
ClockPhases == 2

(***************************************************************************)
(* Python str operations, on sequences of characters                       *)
(***************************************************************************)
LowerChar(c) ==
    CASE c = "A" -> "a"
      [] c = "B" -> "b"
      [] c = "C" -> "c"
      [] c = "D" -> "d"
      [] c = "E" -> "e"
      [] c = "F" -> "f"
      [] c = "G" -> "g"
      [] c = "H" -> "h"
      [] c = "I" -> "i"
      [] c = "J" -> "j"
      [] c = "K" -> "k"
      [] c = "L" -> "l"
      [] c = "M" -> "m"
      [] c = "N" -> "n"
      [] c = "O" -> "o"
      [] c = "P" -> "p"
      [] c = "Q" -> "q"
      [] c = "R" -> "r"
      [] c = "S" -> "s"
      [] c = "T" -> "t"
      [] c = "U" -> "u"
      [] c = "V" -> "v"
      [] c = "W" -> "w"
      [] c = "X" -> "x"
      [] c = "Y" -> "y"
      [] c = "Z" -> "z"
      [] OTHER -> c

lower(s) == [i \in 1..Len(s) |-> LowerChar(s[i])]

\* sub in s
Contains(s, sub) ==
    \E i \in 0..(Len(s) - Len(sub)) : SubSeq(s, i + 1, i + Len(sub)) = sub

startswith(s, prefix) ==
    Len(prefix) <= Len(s) /\ SubSeq(s, 1, Len(prefix)) = prefix

RECURSIVE SplitFrom(_, _, _)
SplitFrom(s, i, cur) ==
    IF i > Len(s)
    THEN IF cur = <<>> THEN <<>> ELSE <<cur>>
    ELSE IF s[i] = " "
         THEN IF cur = <<>>
              THEN SplitFrom(s, i + 1, <<>>)
              ELSE <<cur>> \o SplitFrom(s, i + 1, <<>>)
         ELSE SplitFrom(s, i + 1, Append(cur, s[i]))

\* split taking punctuation for blanks
split_punctuation(s) ==
    SplitFrom([i \in 1..Len(s) |-> IF s[i] \in {"?", "!", ",", ";"} THEN " " ELSE s[i]], 1, <<>>)

\* s.split(): the maximal runs of non-blank characters, in order
split(s) == SplitFrom(s, 1, <<>>)

RECURSIVE RemoveChar(_, _)
\* s.replace(c, '')
RemoveChar(s, c) ==
    IF s = <<>> THEN <<>>
    ELSE IF Head(s) = c THEN RemoveChar(Tail(s), c)
         ELSE <<Head(s)>> \o RemoveChar(Tail(s), c)

(***************************************************************************)
(* Inputs: messages, history turns, contexts                               *)
(***************************************************************************)
MsgHello == <<"h", "e", "l", "l", "o">>
MsgHowMuchBtcQ == <<"H", "o", "w", " ", "m", "u", "c", "h", " ", "i", "s", " ", "0", ".", "5", " ", "B", "T", "C", "?">>
MsgHowMuchBtcNum == <<"H", "o", "w", " ", "m", "u", "c", "h", " ", "i", "s", " ", "0", ".", "5", " ", "B", "T", "C">>
MsgHowMuchBtc == <<"H", "o", "w", " ", "m", "u", "c", "h", " ", "i", "s", " ", "B", "T", "C">>
MsgConvertEth == <<"C", "o", "n", "v", "e", "r", "t", " ", "2", " ", "E", "T", "H", " ", "t", "o", " ", "U", "S", "D">>
MsgDolarBlue == <<"p", "r", "e", "c", "i", "o", " ", "d", "o", "l", "a", "r", " ", "b", "l", "u", "e">>
MsgAddAvaxUsdc == <<"a", "d", "d", " ", "1", " ", "A", "V", "A", "X", " ", "a", "n", "d", " ", "2", "0", " ", "U", "S", "D", "C", " ", "l", "i", "q", "u", "i", "d", "i", "t", "y">>
MsgAvalanchePools == <<"p", "o", "o", "l", "s", " ", "o", "n", " ", "A", "v", "a", "l", "a", "n", "c", "h", "e">>
MsgUnichain == <<"p", "o", "o", "l", "s", " ", "o", "n", " ", "u", "n", "i", "c", "h", "a", "i", "n">>
MsgPools == <<"s", "h", "o", "w", " ", "m", "e", " ", "t", "h", "e", " ", "p", "o", "o", "l", "s">>
MsgLogo == <<"d", "r", "a", "w", " ", "a", " ", "l", "o", "g", "o">>
MsgConvertComma == <<"C", "o", "n", "v", "e", "r", "t", " ", "1", ",", "5", " ", "E", "T", "H", " ", "t", "o", " ", "U", "S", "D">>
MsgConvertBlue == <<"2", " ", "E", "T", "H", " ", "b", "l", "u", "e">>
MsgAvaxUnichain == <<"A", "V", "A", "X", " ", "u", "n", "i", "c", "h", "a", "i", "n">>

Messages ==
    { MsgHello, MsgHowMuchBtcQ, MsgHowMuchBtcNum, MsgHowMuchBtc, MsgConvertEth,
      MsgDolarBlue, MsgAddAvaxUsdc, MsgAvalanchePools, MsgUnichain, MsgPools,
      MsgLogo, MsgConvertComma, MsgConvertBlue, MsgAvaxUnichain }

TurnTextName == <<"c", "a", "l", "l", " ", "i", "t", " ", "W", "a", "p", "u">>
TurnTextLogo == <<"h", "t", "t", "p", ":", "/", "/", "x", ".", "i", "o", "/", "a", ".", "p", "n", "g">>

Turns ==
    { [role |-> "user", content |-> TurnTextName],
      [role |-> "user", content |-> TurnTextLogo] }

RECURSIVE SeqsUpTo(_, _)
SeqsUpTo(S, n) ==
    IF n = 0 THEN {<<>>}
    ELSE LET shorter == SeqsUpTo(S, n - 1)
         IN  shorter \cup {Append(q, x) : q \in shorter, x \in S}

Histories == SeqsUpTo(Turns, MaxHistory)

NoneValue == [k |-> "none"]
StrValue(s) == [k |-> "str", v |-> s]
ListValue(l) == [k |-> "list", v |-> l]
DictValue(d) == [k |-> "dict", v |-> d]

\* the context argument: None, or a dict given as its items in insertion order
EmptyContext == [k |-> "dict", items |-> <<>>]

Contexts ==
    { NoneValue, EmptyContext,
      [k |-> "dict", items |-> <<[key |-> "risk_tolerance", val |-> StrValue("aggressive")]>>],
      [k |-> "dict", items |-> <<[key |-> "deployment_params",
                                  val |-> DictValue([name |-> "Wapu", symbol |-> "WAPU"])]>>] }
    \cup { [k |-> "dict", items |-> <<[key |-> "history", val |-> ListValue(h)]>>] : h \in Histories }

\* context or {}
OrEmpty(c) == IF c.k = "none" \/ c.items = <<>> THEN EmptyContext ELSE c

HasKey(c, key) == \E i \in 1..Len(c.items) : c.items[i].key = key

\* c.get(key, default)
DictGet(c, key, default) ==
    IF HasKey(c, key)
    THEN (CHOOSE it \in {c.items[i] : i \in 1..Len(c.items)} : it.key = key).val
    ELSE default

\* exception messages of failing collaborators
ErrorTexts == {"Connection error"}

(***************************************************************************)
(* RouterAgent.analyze_intent (core/agents/router_agent.py)                *)
(***************************************************************************)
\* agent_type values the classification LLM may put in its function call:
\* the five the router knows and two it has never heard of
AgentTypes == {"deployment", "image", "risk", "trading", "base", "price", ""}

\* the closed intent set of a routing decision, with the router's own "error"
IntentEnum == {"deployment", "image", "risk", "trading", "base", "error"}

\* determine_agent declares a default for every parameter, so the LLM's
\* function call may leave any of them out
Decisions ==
    { [agent_type |-> a, confidence |-> 90, reasoning |-> "llm reasoning"] : a \in AgentTypes }
    \cup { [agent_type |-> a, confidence |-> 90] : a \in {"base", "price"} }
    \cup { [agent_type |-> a] : a \in {"base", "price"} }
    \cup { [confidence |-> 90, reasoning |-> "llm reasoning"] }

\* the arguments text of a tool call: JSON of a dict, JSON of a list, or not JSON
ArgumentTexts ==
    { [k |-> "malformed"], [k |-> "json", v |-> [k |-> "list"]] }
    \cup { [k |-> "json", v |-> DictValue(d)] : d \in Decisions }

\* outcomes of client.run(agent=self, ...): an exception, a reply without
\* tool_calls, or a reply whose first tool call carries an arguments text
RouterDelegateOutcomes ==
    { [k |-> "raise", e |-> t] : t \in ErrorTexts }
    \cup { [k |-> "text"] }
    \cup { [k |-> "call", arguments |-> a] : a \in ArgumentTexts }

JSONDecodeErrorText == "Expecting value: line 1 column 1 (char 0)"

FallbackConfidence == 50

FallbackDecision ==
    DictValue([agent_type |-> "base", confidence |-> FallbackConfidence,
               reasoning |-> "Failed to determine specific intent"])

\* ErrorDecision reporting the fallback confidence instead of 0
ErrorDecisionHalf(e) ==
    DictValue([agent_type |-> "base", confidence |-> FallbackConfidence,
               reasoning |-> "Error: " \o e])

ErrorDecision(e) ==
    DictValue([agent_type |-> "base", confidence |-> 0, reasoning |-> "Error: " \o e])

\* json.loads(text): the decoded value, or a JSONDecodeError
json_loads(text) ==
    IF text.k = "malformed"
    THEN [k |-> "raise", e |-> JSONDecodeErrorText]
    ELSE [k |-> "return", v |-> text.v]

\* analyze_intent guarding json.loads by the fallback branch
analyze_intent_guarded(msg, ctx, o) ==
    CASE o.k = "raise" -> ErrorDecision(o.e)
      [] o.k = "text"  -> FallbackDecision
      [] o.k = "call"  ->
            LET parsed == json_loads(o.arguments)
            IN  IF parsed.k = "raise" THEN FallbackDecision ELSE parsed.v

\* the value analyze_intent returns when the delegate's run ends as o
analyze_intent(msg, ctx, o) ==
    CASE o.k = "raise" -> ErrorDecision(o.e)
      [] o.k = "text"  -> FallbackDecision
      [] o.k = "call"  ->
            LET parsed == json_loads(o.arguments)
            IN  IF parsed.k = "raise" THEN ErrorDecision(parsed.e) ELSE parsed.v

\* line 79: text.get('message', str(text)) for a dict value
RenderDict(d) ==
    IF "message" \in DOMAIN d THEN [k |-> "item", v |-> d.message] ELSE [k |-> "repr", v |-> d]

RECURSIVE context_messages(_)
\* lines 69-79 on the reversed items: one line "role: text" per item whose
\* value is a str or a dict, nothing for any other value
context_messages(context_items) ==
    IF context_items = <<>> THEN <<>>
    ELSE LET role == Head(context_items).key
             text == Head(context_items).val
             line == CASE text.k = "str"  -> <<[role |-> role, text |-> text]>>
                       [] text.k = "dict" -> <<[role |-> role, text |-> RenderDict(text.v)]>>
                       [] OTHER           -> <<>>
         IN  line \o context_messages(Tail(context_items))

\* list.reverse()
reverse(q) == [i \in 1..Len(q) |-> q[Len(q) + 1 - i]]

\* lines 69-91: the prompt, as the lines of {conversation} and {message}
analyze_intent_prompt(msg, ctx) ==
    [k |-> "prompt",
     conversation |-> IF ctx.k = "none" \/ ctx.items = <<>> THEN <<>>
                      ELSE context_messages(reverse(ctx.items)),
     message |-> msg]

(***************************************************************************)
(* Numbers: exact fractions in lowest terms, and float(word)               *)
(***************************************************************************)
RECURSIVE GCD(_, _)
GCD(a, b) == IF b = 0 THEN a ELSE GCD(b, a % b)

Abs(n) == IF n < 0 THEN -n ELSE n

Frac(n, d) ==
    LET g == GCD(Abs(n), d)
    IN  IF n = 0 THEN [num |-> 0, den |-> 1] ELSE [num |-> n \div g, den |-> d \div g]

Mul(a, b) == Frac(a.num * b.num, a.den * b.den)

\* a / b for b # 0
Div(a, b) ==
    IF b.num < 0 THEN Frac(-(a.num * b.den), a.den * (-b.num))
    ELSE Frac(a.num * b.den, a.den * b.num)

Digits == {"0", "1", "2", "3", "4", "5", "6", "7", "8", "9"}

DigitVal(c) == CHOOSE n \in 0..9 : ToString(n) = c

RECURSIVE Pow10(_)
Pow10(n) == IF n = 0 THEN 1 ELSE 10 * Pow10(n - 1)

RECURSIVE DigitsVal(_)
DigitsVal(ds) ==
    IF ds = <<>> THEN 0
    ELSE 10 * DigitsVal(SubSeq(ds, 1, Len(ds) - 1)) + DigitVal(ds[Len(ds)])

\* float(w) for a decimal literal: an optional sign, digits with at most one
\* '.', at least one digit.  ok = FALSE stands for ValueError.  (Exponents,
\* underscores and the words inf and nan do not occur in Messages.)
float(w) ==
    LET signed == w # <<>> /\ Head(w) \in {"+", "-"}
        body   == IF signed THEN Tail(w) ELSE w
        dots   == {i \in 1..Len(body) : body[i] = "."}
        digs   == RemoveChar(body, ".")
        valid  == /\ \A i \in 1..Len(body) : body[i] \in Digits \cup {"."}
                  /\ Cardinality(dots) <= 1
                  /\ digs # <<>>
        after  == IF dots = {} THEN 0 ELSE Len(body) - (CHOOSE i \in dots : TRUE)
        mag    == DigitsVal(digs)
    IN  IF ~valid THEN [ok |-> FALSE]
        ELSE [ok |-> TRUE,
              val |-> Frac(IF signed /\ Head(w) = "-" THEN -mag ELSE mag, Pow10(after))]

(***************************************************************************)
(* AIAgent, the base (price / conversion / general) handler                *)
(* (api/agents/base_agent/base_agent.py)                                   *)
(***************************************************************************)
Times == {1}

Prices == {Frac(0, 1), Frac(3000, 1), Frac(60000, 1)}

\* outcomes of get_crypto_price's HTTP calls: an exception of requests, no
\* coin id found, an empty JSON object, a quote, or a JSON object that is
\* not a quote (an API error body)
PriceOutcomes ==
    { [k |-> "raise", e |-> "Connection error"], [k |-> "notfound"], [k |-> "empty"],
      [k |-> "noquote", coin_id |-> "status"] }
    \cup { [k |-> "quote", coin_id |-> "coin", usd |-> p, usd_24h_change |-> Frac(1, 2)] : p \in Prices }

get_crypto_price(name, o) ==
    CASE o.k = "raise"    -> [k |-> "raise", e |-> o.e]
      [] o.k = "notfound" -> [k |-> "return", v |-> [error |-> "Could not find price for " \o name]]
      [] o.k = "empty"    -> [k |-> "return", v |-> [error |-> "Could not find price for " \o name]]
      [] o.k = "noquote"  -> [k |-> "return", v |-> [coin_id |-> o.coin_id, quote |-> [error_code |-> 429]]]
      [] o.k = "quote"    ->
            [k |-> "return",
             v |-> [coin_id |-> o.coin_id,
                    quote |-> [usd |-> o.usd, usd_24h_change |-> o.usd_24h_change]]]

HasError(d) == "error" \in DOMAIN d

\* calculate_crypto_amount taking every direction but "from_usd" for from_usd
calculate_crypto_amount_swapped(amount, symbol, conversion_type, o) ==
    LET price_data == get_crypto_price(symbol, o)
    IN  IF price_data.k = "raise" THEN price_data
        ELSE IF HasError(price_data.v) THEN price_data
        ELSE IF "usd" \notin DOMAIN price_data.v.quote
             THEN [k |-> "return", v |-> [error |-> "Failed to calculate conversion: 'usd'"]]
        ELSE LET price == price_data.v.quote.usd
             IN  IF conversion_type = "from_usd"
                 THEN [k |-> "return",
                       v |-> [input_amount |-> amount, input_currency |-> symbol,
                              output_amount |-> Mul(amount, price),
                              output_currency |-> "USD", rate |-> price]]
                 ELSE IF price.num = 0
                      THEN [k |-> "return",
                            v |-> [error |-> "Failed to calculate conversion: float division by zero"]]
                      ELSE [k |-> "return",
                            v |-> [input_amount |-> amount, input_currency |-> "USD",
                                   output_amount |-> Div(amount, price),
                                   output_currency |-> symbol, rate |-> price]]

\* AIAgent.calculate_crypto_amount: the price lookup is outside the try, so
\* what it raises propagates; KeyError, IndexError and ZeroDivisionError of
\* the computation become an error mapping
calculate_crypto_amount(amount, symbol, conversion_type, o) ==
    LET price_data == get_crypto_price(symbol, o)
    IN  IF price_data.k = "raise" THEN price_data
        ELSE IF HasError(price_data.v) THEN price_data
        ELSE IF "usd" \notin DOMAIN price_data.v.quote
             THEN [k |-> "return", v |-> [error |-> "Failed to calculate conversion: 'usd'"]]
        ELSE LET price == price_data.v.quote.usd
             IN  IF conversion_type = "to_usd"
                 THEN [k |-> "return",
                       v |-> [input_amount |-> amount, input_currency |-> symbol,
                              output_amount |-> Mul(amount, price),
                              output_currency |-> "USD", rate |-> price]]
                 ELSE IF price.num = 0
                      THEN [k |-> "return",
                            v |-> [error |-> "Failed to calculate conversion: float division by zero"]]
                      ELSE [k |-> "return",
                            v |-> [input_amount |-> amount, input_currency |-> "USD",
                                   output_amount |-> Div(amount, price),
                                   output_currency |-> symbol, rate |-> price]]

\* outcomes of requests.get('https://dolarapi.com/v1/dolares') and its JSON:
\* a list of rates, a list whose items are not rates, a non-200 status, an
\* exception
GoodRates == <<[nombre |-> "Blue", compra |-> 1000, venta |-> 1020]>>
BadRates == <<[casa |-> "blue"]>>

DollarOutcomes ==
    { [k |-> "ok", data |-> GoodRates], [k |-> "ok", data |-> BadRates],
      [k |-> "status", code |-> 500], [k |-> "raise", e |-> "Connection error"] }

get_dollar_rates(o) ==
    CASE o.k = "ok"     -> [success |-> TRUE, data |-> o.data]
      [] o.k = "status" ->
            [success |-> FALSE, error |-> "API returned status code " \o ToString(o.code)]
      [] o.k = "raise"  -> [success |-> FALSE, error |-> o.e]

dollar_keywords ==
    << <<"d", "o", "l", "a", "r">>,
       <<"d", "o", "l", "a", "r", "e", "s">>,
       <<"b", "l", "u", "e">>,
       <<"o", "f", "i", "c", "i", "a", "l">>,
       <<"t", "a", "r", "j", "e", "t", "a">>,
       <<"c", "r", "i", "p", "t", "o">>,
       <<"m", "a", "y", "o", "r", "i", "s", "t", "a">>,
       <<"c", "u", "a", "n", "t", "o", " ", "e", "s", "t", "a">>,
       <<"c", "o", "t", "i", "z", "a", "c", "i", "o", "n">>,
       <<"p", "r", "e", "c", "i", "o", " ", "d", "e", "l", " ", "d", "o", "l", "a", "r">>,
       <<"p", "r", "e", "c", "i", "o", " ", "d", "o", "l", "a", "r">> >>

crypto_symbols ==
    << [main_symbol |-> "btc", variations |-> << <<"b", "t", "c">>, <<"b", "i", "t", "c", "o", "i", "n">>, <<"b", "t", "c", "s">>, <<"x", "b", "t">>, <<"b", "i", "t", "c", "o", "i", "n", "s">> >>],
       [main_symbol |-> "eth", variations |-> << <<"e", "t", "h">>, <<"e", "t", "h", "e", "r", "e", "u", "m">>, <<"e", "t", "h", "e", "r">>, <<"e", "t", "h", "e", "r", "e", "u", "m", "s">> >>],
       [main_symbol |-> "sol", variations |-> << <<"s", "o", "l">>, <<"s", "o", "l", "a", "n", "a">>, <<"s", "o", "l", "s">> >>],
       [main_symbol |-> "usdt", variations |-> << <<"u", "s", "d", "t">>, <<"t", "e", "t", "h", "e", "r">> >>],
       [main_symbol |-> "bnb", variations |-> << <<"b", "n", "b">>, <<"b", "i", "n", "a", "n", "c", "e">>, <<"b", "i", "n", "a", "n", "c", "e", " ", "c", "o", "i", "n">>, <<"b", "i", "n", "a", "n", "c", "e", "c", "o", "i", "n">> >>],
       [main_symbol |-> "ada", variations |-> << <<"a", "d", "a">>, <<"c", "a", "r", "d", "a", "n", "o">> >>],
       [main_symbol |-> "xrp", variations |-> << <<"x", "r", "p">>, <<"r", "i", "p", "p", "l", "e">> >>],
       [main_symbol |-> "doge", variations |-> << <<"d", "o", "g", "e">>, <<"d", "o", "g", "e", "c", "o", "i", "n">> >>] >>

InSeq(x, q) == \E i \in 1..Len(q) : q[i] = x

MatchesSymbol(word) == \E j \in 1..Len(crypto_symbols) : InSeq(word, crypto_symbols[j].variations)

\* the main symbol of the first word that is a variation of some symbol,
\* "" when there is none (found_symbol is None)
FindSymbol(words) ==
    IF \E i \in 1..Len(words) : MatchesSymbol(words[i])
    THEN LET i == CHOOSE i \in 1..Len(words) :
                      /\ MatchesSymbol(words[i])
                      /\ \A h \in 1..(i - 1) : ~MatchesSymbol(words[h])
             j == CHOOSE j \in 1..Len(crypto_symbols) :
                      /\ InSeq(words[i], crypto_symbols[j].variations)
                      /\ \A h \in 1..(j - 1) : ~InSeq(words[i], crypto_symbols[h].variations)
         IN  crypto_symbols[j].main_symbol
    ELSE ""

RECURSIVE FindNumbers(_)
\* found_numbers: float of every word, commas and blanks removed, that parses
FindNumbers(words) ==
    IF words = <<>> THEN <<>>
    ELSE LET cleaned_word == RemoveChar(RemoveChar(Head(words), ","), " ")
             number == float(cleaned_word)
         IN  (IF number.ok THEN <<number.val>> ELSE <<>>) \o FindNumbers(Tail(words))

is_dollar_query(msg) ==
    \E i \in 1..Len(dollar_keywords) : Contains(lower(msg), dollar_keywords[i])

RunOutcomes ==
    {[k |-> "raise", e |-> t] : t \in ErrorTexts} \cup {[k |-> "reply", content |-> "llm reply"]}

\* a collaborator the call never reaches
Unused == [k |-> "unused"]

\* what the collaborators of one process_message(msg, ...) call do, for the
\* calls that are made: Swarm(), the dollar API (a dollar query only),
\* client.run (unless the dollar rates were returned), the price lookup of
\* process_message (a symbol was found and run replied), the price lookup
\* of calculate_crypto_amount (the first lookup gave a quote and a number
\* was found), and the clock
BaseOutcomes(msg) ==
    LET message_words == split(lower(msg))
        has_symbol == FindSymbol(message_words) # ""
        has_numbers == FindNumbers(message_words) # <<>>
        dollars == IF is_dollar_query(msg) THEN DollarOutcomes ELSE {Unused}
        runs(d) == IF d.k = "ok" THEN {Unused} ELSE RunOutcomes
        prices(r) == IF r.k = "reply" /\ has_symbol THEN PriceOutcomes ELSE {Unused}
        prices2(p) == IF p.k = "quote" /\ has_numbers THEN PriceOutcomes ELSE {Unused}
    IN  {[swarm |-> "raise", dollar |-> Unused, run |-> Unused, price |-> Unused,
          price2 |-> Unused, now |-> t] : t \in Times}
        \cup UNION {UNION {UNION {
                {[swarm |-> "ok", dollar |-> d, run |-> r, price |-> p, price2 |-> q, now |-> t] :
                     q \in prices2(p), t \in Times}
                : p \in prices(r)} : r \in runs(d)} : d \in dollars}

Metadata(msg, ctx, t) == [timestamp |-> t, query |-> msg, context |-> ctx]

RatesWellFormed(data) ==
    \A i \in 1..Len(data) : {"nombre", "compra", "venta"} \subseteq DOMAIN data[i]

\* the part of process_message after client.run returned reply
BaseAfterRun(msg, ctx, o) ==
    LET general == [response |-> StrValue(o.run.content), type |-> "general", data |-> <<>>,
                    metadata |-> Metadata(msg, ctx, o.now)]
        message_words == split(lower(msg))
        found_symbol == FindSymbol(message_words)
        found_numbers == FindNumbers(message_words)
        price_data == get_crypto_price(found_symbol, o.price)
    IN  IF found_symbol = "" THEN [k |-> "return", v |-> general]
        ELSE IF price_data.k = "raise" THEN price_data
        ELSE IF HasError(price_data.v) THEN [k |-> "return", v |-> general]
        ELSE IF "usd" \notin DOMAIN price_data.v.quote THEN [k |-> "raise", e |-> "'usd'"]
        ELSE IF found_numbers # <<>>
             THEN LET conversion == calculate_crypto_amount(found_numbers[1], found_symbol,
                                                            "to_usd", o.price2)
                  IN  IF conversion.k = "raise" THEN conversion
                      ELSE IF HasError(conversion.v) THEN [k |-> "return", v |-> general]
                      ELSE [k |-> "return",
                            v |-> [general EXCEPT
                                     !.type = "conversion_query",
                                     !.data = [input_amount |-> conversion.v.input_amount,
                                               input_currency |-> conversion.v.input_currency,
                                               output_amount |-> conversion.v.output_amount,
                                               output_currency |-> conversion.v.output_currency,
                                               rate |-> conversion.v.rate,
                                               timestamp |-> o.now]]]
             ELSE [k |-> "return",
                   v |-> [general EXCEPT
                            !.type = "price_query",
                            !.data = [price_usd |-> price_data.v.quote.usd,
                                      price_change_24h |-> price_data.v.quote.usd_24h_change,
                                      symbol |-> found_symbol,
                                      coin_id |-> price_data.v.coin_id,
                                      timestamp |-> o.now]]]

\* AIAgent.process_message(message, context): [k |-> "return", v |-> the
\* mapping returned] or [k |-> "raise", e |-> str of the exception raised
BaseProcessMessage(msg, c, o) ==
    LET ctx == OrEmpty(c)
        rates == get_dollar_rates(o.dollar)
    IN  IF o.swarm = "raise" THEN [k |-> "raise", e |-> "The api_key client option must be set"]
        ELSE IF is_dollar_query(msg) /\ rates.success
             THEN IF ~RatesWellFormed(rates.data) THEN [k |-> "raise", e |-> "'nombre'"]
                  ELSE [k |-> "return",
                        v |-> [type |-> "dollar_rates",
                               data |-> [rates |-> rates.data, timestamp |-> o.now],
                               metadata |-> Metadata(msg, ctx, o.now),
                               response |-> StrValue("Cotizaciones del dolar")]]
        ELSE IF o.run.k = "raise" THEN [k |-> "raise", e |-> o.run.e]
        ELSE BaseAfterRun(msg, ctx, o)

(***************************************************************************)
(* Substrings the router and the handlers look for                         *)
(***************************************************************************)
KwAvalanche == <<"a", "v", "a", "l", "a", "n", "c", "h", "e">>
KwAvax == <<"a", "v", "a", "x">>
KwUnichain == <<"u", "n", "i", "c", "h", "a", "i", "n">>
KwHttp == <<"h", "t", "t", "p">>
KwPng == <<"p", "n", "g">>
KwJpg == <<"j", "p", "g">>
KwUsdc == <<"u", "s", "d", "c">>
KwUsdt == <<"u", "s", "d", "t">>

(***************************************************************************)
(* RiskAgent.process_message (core/agents/risk_agent.py)                   *)
(***************************************************************************)
\* _calculate_price_range's ranges and _suggest_position_size's
\* max_positions, in percent
RangePercent(risk_tolerance) ==
    CASE risk_tolerance = "conservative" -> 5
      [] risk_tolerance = "moderate"     -> 10
      [] risk_tolerance = "aggressive"   -> 20
      [] OTHER                           -> 10

MaxPositionPercent(risk_tolerance) ==
    CASE risk_tolerance = "conservative" -> 30
      [] risk_tolerance = "moderate"     -> 50
      [] risk_tolerance = "aggressive"   -> 70
      [] OTHER                           -> 50

\* how suggest_strategy, analyze_pool and assess_risk end: each returns a
\* success mapping or, having caught its failure, {success: False, error};
\* analyze_pool constructs its HistoricalDataService before its try block
\* and so may also raise
RiskOutcomes ==
    [strategy : {"ok", "failed"}, pool : {"ok", "failed", "raise"}, risk : {"ok", "failed"},
     now : Times]

RiskProcessMessage(msg, c, o) ==
    LET ctx == OrEmpty(c)
        risk_tolerance == DictGet(ctx, "risk_tolerance", StrValue("moderate")).v
        failure(e) == [k |-> "return",
                       v |-> [success |-> FALSE, error |-> e, type |-> "error",
                              metadata |-> Metadata(msg, ctx, o.now)]]
    IN  IF o.pool = "raise" THEN failure("Invalid RPC URL")
        ELSE IF o.strategy = "failed" THEN failure("Failed to get pool data")
        ELSE IF o.pool = "failed" \/ o.risk = "failed" THEN failure("Failed to parse pool metrics")
        ELSE [k |-> "return",
              v |-> [success |-> TRUE, type |-> "strategy_recommendation",
                     data |-> [recommended_strategy |->
                                  [price_range |-> RangePercent(risk_tolerance),
                                   position_size |-> MaxPositionPercent(risk_tolerance)]],
                     response |-> StrValue("Based on my analysis of the AVAX-USDC pool"),
                     metadata |-> Metadata(msg, ctx, o.now)]]

(***************************************************************************)
(* LiquidityProviderAgent.process_message (core/agents/lp_avax_agent.py)   *)
(***************************************************************************)
AVALANCHE_LP_POOLS ==
    << [pool_key |-> "AVAX_USDC", name |-> "AVAX-USDC", tokens |-> <<KwAvax, KwUsdc>>, bin_step |-> 20],
       [pool_key |-> "AVAX_USDT", name |-> "AVAX-USDT", tokens |-> <<KwAvax, KwUsdt>>, bin_step |-> 20] >>

PoolMentioned(msg, j) ==
    \A i \in 1..Len(AVALANCHE_LP_POOLS[j].tokens) :
        Contains(lower(msg), AVALANCHE_LP_POOLS[j].tokens[i])

\* arguments the LLM may put in its prepare_add_liquidity call
LpArguments ==
    { [k |-> "malformed"],
      [k |-> "json", v |-> DictValue([token_x_amount |-> 1, token_y_amount |-> 20])],
      [k |-> "json", v |-> DictValue([token_x_amount |-> 1])] }

LpOutcomes ==
    [run : {[k |-> "raise", e |-> t] : t \in ErrorTexts} \cup {[k |-> "text"]}
           \cup {[k |-> "call", arguments |-> a] : a \in LpArguments},
     rpc : {[k |-> "raise", e |-> "RPC unreachable"], [k |-> "ok", active_id |-> 8388608]}]

\* the amounts in token units (amount * 10 ** decimals) are left out: no
\* handler or router code reads them back
prepare_add_liquidity(pool_config, token_x_amount, token_y_amount, o) ==
    IF o.k = "raise" THEN [error |-> o.e]
    ELSE [type |-> "add_liquidity", network |-> "avalanche", chain_id |-> 43114,
          pool |-> pool_config.pool_key,
          liquidity_params |-> [binStep |-> pool_config.bin_step, activeIdDesired |-> o.active_id,
                                idSlippage |-> 5, deltaIds |-> <<-1, 0, 1>>],
          metadata |-> [active_bin_id |-> o.active_id,
                        expected_position |-> [token_x |-> token_x_amount,
                                               token_y |-> token_y_amount]]]

\* LpProcessMessage answering every request by the remove_liquidity payload
LpProcessMessageRemove(msg, c, o) ==
    [k |-> "return",
     v |-> [type |-> "remove_liquidity", network |-> "avalanche", chain_id |-> 43114,
            message |-> "Please implement remove liquidity functionality"]]

LpProcessMessage(msg, c, o) ==
    IF ~\E j \in 1..Len(AVALANCHE_LP_POOLS) : PoolMentioned(msg, j)
    THEN [k |-> "return",
          v |-> [error |-> "Could not determine which pool you want to use",
                 available_pools |-> <<"AVAX_USDC", "AVAX_USDT">>]]
    ELSE LET j == CHOOSE j \in 1..Len(AVALANCHE_LP_POOLS) :
                      /\ PoolMentioned(msg, j)
                      /\ \A h \in 1..(j - 1) : ~PoolMentioned(msg, h)
             selected_pool == AVALANCHE_LP_POOLS[j]
             request_amounts == [type |-> "request_amounts",
                                 message |-> "How much would you like to add to the "
                                             \o selected_pool.name \o " pool?",
                                 pool |-> selected_pool.pool_key]
             args == json_loads(o.run.arguments)
         IN  [k |-> "return",
              v |-> CASE o.run.k = "raise" -> [error |-> o.run.e]
                      [] o.run.k = "text"  -> request_amounts
                      [] o.run.k = "call"  ->
                            IF args.k = "raise" THEN [error |-> args.e]
                            ELSE IF {"token_x_amount", "token_y_amount"} \subseteq DOMAIN args.v.v
                                 THEN prepare_add_liquidity(selected_pool, args.v.v.token_x_amount,
                                                            args.v.v.token_y_amount, o.rpc)
                                 ELSE request_amounts]

(***************************************************************************)
(* ImageAgent.process_message (core/agents/image_agent.py)                 *)
(***************************************************************************)
ImageOutcomes ==
    { [k |-> "raise", e |-> "Image API unavailable"],
      [k |-> "ok", url |-> "https://img/1.png", revised_prompt |-> "revised"] }

generate_image(prompt, o) ==
    IF o.k = "raise" THEN [error |-> o.e]
    ELSE [type |-> "image_ready",
          image_data |-> [url |-> o.url, revised_prompt |-> o.revised_prompt],
          prompt |-> prompt,
          message |-> "I've generated your image! Would you like to use this for a token?"]

\* the prompt: the message, with the token's name and symbol worked in when
\* the context carries deployment_params
ImagePrompt(msg, c) ==
    IF c.k = "dict" /\ HasKey(c, "deployment_params")
    THEN LET params == DictGet(c, "deployment_params", NoneValue).v
         IN  [text |-> msg, token_logo |-> TRUE,
              token_name |-> IF "name" \in DOMAIN params THEN params.name ELSE "",
              token_symbol |-> IF "symbol" \in DOMAIN params THEN params.symbol ELSE ""]
    ELSE [text |-> msg, token_logo |-> FALSE, token_name |-> "", token_symbol |-> ""]

ImageProcessMessage(msg, c, o) ==
    [k |-> "return", v |-> generate_image(ImagePrompt(msg, c), o)]

(***************************************************************************)
(* DeploymentAgent.process_message (core/agents/deployment_agent.py)       *)
(***************************************************************************)
IsLogoUrl(content) ==
    startswith(content, KwHttp) /\ (Contains(content, KwPng) \/ Contains(content, KwJpg))

\* deployment_params["logo_url"] after the loop over the history: the last
\* logo URL of the history, <<>> when there is none
HistoryLogo(history) ==
    LET logos == {i \in 1..Len(history) : IsLogoUrl(history[i].content)}
    IN  IF logos = {} THEN <<>>
        ELSE history[CHOOSE i \in logos : \A h \in logos : h <= i].content

DefaultTotalSupply == 1000000

\* arguments the LLM may put in its extract_token_parameters call
DeploymentArguments ==
    { [k |-> "malformed"],
      [k |-> "json", v |-> DictValue([name |-> "Wapu", symbol |-> "WAPU"])],
      [k |-> "json", v |-> DictValue([name |-> "Wapu", symbol |-> "WAPU", total_supply |-> 500])],
      [k |-> "json", v |-> DictValue([name |-> "Wapu"])] }

\* the outcomes of the three client.run calls: the analysis of the
\* conversation, generate_next_prompt's, prepare_token_deployment's
DeploymentOutcomes ==
    [run : {[k |-> "raise", e |-> t] : t \in ErrorTexts} \cup {[k |-> "text"]}
           \cup {[k |-> "call", arguments |-> a] : a \in DeploymentArguments},
     next_prompt : RunOutcomes, confirmation : RunOutcomes]

DeploymentRouting == [agent |-> "deployment", confidence |-> 100]

\* prepare_token_deployment reporting the default supply whatever it is given
prepare_token_deployment_default(name, symbol, total_supply, logo_url, o) ==
    IF logo_url = <<>>
    THEN [type |-> "needs_image",
          message |-> "Great! I have all the token details. Now we just need a logo",
          deployment_params |-> [name |-> name, symbol |-> symbol,
                                 total_supply |-> DefaultTotalSupply]]
    ELSE IF o.k = "raise" THEN [error |-> o.e]
    ELSE [type |-> "deployment_ready",
          network |-> [name |-> "unichain", chain_id |-> "222"],
          constructor_args |-> <<name, symbol, 18>>,
          deployment_params |-> [name |-> name, symbol |-> symbol, decimals |-> 18,
                                 total_supply |-> DefaultTotalSupply, logo_url |-> logo_url],
          message |-> o.content]

prepare_token_deployment(name, symbol, total_supply, logo_url, o) ==
    IF logo_url = <<>>
    THEN [type |-> "needs_image",
          message |-> "Great! I have all the token details. Now we just need a logo",
          deployment_params |-> [name |-> name, symbol |-> symbol, total_supply |-> total_supply]]
    ELSE IF o.k = "raise" THEN [error |-> o.e]
    ELSE [type |-> "deployment_ready",
          network |-> [name |-> "unichain", chain_id |-> "222"],
          constructor_args |-> <<name, symbol, 18>>,
          deployment_params |-> [name |-> name, symbol |-> symbol, decimals |-> 18,
                                 total_supply |-> total_supply, logo_url |-> logo_url],
          message |-> o.content]

DeploymentProcessMessage(msg, c, o) ==
    LET context_variables == OrEmpty(c)
        conversation_history == DictGet(context_variables, "history", ListValue(<<>>)).v
        logo_url == HistoryLogo(conversation_history)
        args == json_loads(o.run.arguments)
        found(key) == key \in DOMAIN args.v.v
        next_prompt ==
            IF o.next_prompt.k = "raise" THEN [error |-> o.next_prompt.e]
            ELSE [response |-> StrValue(o.next_prompt.content), routing |-> DeploymentRouting]
    IN  [k |-> "return",
         v |-> CASE o.run.k = "raise" -> [error |-> o.run.e]
                 [] o.run.k = "text"  -> next_prompt
                 [] o.run.k = "call"  ->
                       IF args.k = "raise" THEN [error |-> "Invalid response format from AI"]
                       ELSE IF found("name") /\ found("symbol") /\ logo_url # <<>>
                            THEN [response |->
                                      DictValue(prepare_token_deployment(
                                          args.v.v.name, args.v.v.symbol,
                                          IF found("total_supply") THEN args.v.v.total_supply
                                          ELSE DefaultTotalSupply,
                                          logo_url, o.confirmation)),
                                  routing |-> DeploymentRouting]
                            ELSE next_prompt]

(***************************************************************************)
(* The cached fetches: RiskAgent._get_pool_data (core/agents/              *)
(* risk_agent.py) and HistoricalDataService.get_pool_history (data/        *)
(* historical.py).  Both read the clock, serve the cache when              *)
(* (now - timestamp).seconds < duration, and otherwise await the fetch and *)
(* then write the value and the timestamp taken before the fetch.  The     *)
(* fields are named after RiskAgent; for a HistoricalDataService           *)
(* pool_data_cache stands for _history_cache and cache_timestamp for       *)
(* _history_timestamp.  Time is in whole seconds.                          *)
(***************************************************************************)
Services == {"RiskAgent", "HistoricalDataService"}

PoolCacheDuration == 60

HistoryCacheDuration == 300

cache_duration == IF service = "RiskAgent" THEN PoolCacheDuration ELSE HistoryCacheDuration

SecondsPerDay == 86400

\* timedelta.seconds of a difference of d seconds: the seconds within the
\* day, the days being kept in timedelta.days (a negative d has days < 0)
seconds(d) == d % SecondsPerDay

Tasks == 1..MaxTasks

\* None for pool_data_cache and for cache_timestamp
NoData == 0
NoTime == -1

\* the dict of zeros _get_empty_metrics builds for the n-th fetch: a value
\* like any other to `is not None`, and true to `not pool_data` since it
\* has keys
EmptyMetrics(n) == 0 - n

IsEmptyMetrics(v) == v < 0

\* how far the clock moves between two steps
Deltas == {30, 270, SecondsPerDay}

\* a coroutine that is not inside the cached fetch; age is the time since
\* the entry it found was written (NoTime: it found none)
IdleTask == [pc |-> "idle", now |-> NoTime, value |-> NoData, hit |-> FALSE, age |-> NoTime]

CacheAtRest ==
    /\ service = "RiskAgent"
    /\ pool_data_cache = NoData
    /\ cache_timestamp = NoTime
    /\ clock = 0
    /\ ticks = 0
    /\ fetches = 0
    /\ task = [t \in Tasks |-> IdleTask]
    /\ stored_at = NoTime
    /\ completed = <<>>

FnAtRest ==
    /\ fcall = NoneValue
    /\ fret = NoneValue

WaitAtRest ==
    /\ wpc = "idle"
    /\ wmessage = <<>>
    /\ wcall = "none"
    /\ wplan = <<>>
    /\ wclock = 0

ViewAtRest ==
    /\ vpc = "idle"
    /\ request = NoneValue
    /\ view_response = NoneValue
    /\ routed = 0

HistAtRest == history_log = <<>>

\* CacheValid with the comparison turned round
CacheValidInverted(now) ==
    /\ pool_data_cache # NoData
    /\ cache_timestamp # NoTime
    /\ seconds(now - cache_timestamp) > cache_duration

\* the condition of lines 73-75 (historical.py 47-49) at time now
CacheValid(now) ==
    /\ pool_data_cache # NoData
    /\ cache_timestamp # NoTime
    /\ seconds(now - cache_timestamp) < cache_duration

Age == IF stored_at = NoTime THEN NoTime ELSE clock - stored_at

\* coroutines outside the fetch are interchangeable: the next call is made
\* by the first of them
NextCaller(t) ==
    /\ task[t].pc = "idle"
    /\ \A u \in Tasks : u < t => task[u].pc # "idle"

\* time passes
Tick ==
    /\ ticks < MaxTicks
    /\ \E d \in Deltas : clock' = clock + d
    /\ ticks' = ticks + 1
    /\ UNCHANGED <<service, pool_data_cache, cache_timestamp, fetches, task, stored_at, completed>>
    /\ UNCHANGED cacheFrame

\* a call finds the cache valid and returns it
ServeCache(t) ==
    /\ NextCaller(t)
    /\ CacheValid(clock)
    /\ task' = [task EXCEPT ![t] = [pc |-> "returned", now |-> clock, value |-> pool_data_cache,
                                    hit |-> TRUE, age |-> Age]]
    /\ UNCHANGED <<service, pool_data_cache, cache_timestamp, clock, ticks, fetches,
                   stored_at, completed>>
    /\ UNCHANGED cacheFrame

\* a call finds no valid cache, invokes the fetch and is suspended in it;
\* the n-th fetch will give the value n
StartFetch(t) ==
    /\ NextCaller(t)
    /\ ~CacheValid(clock)
    /\ fetches < MaxFetches
    /\ fetches' = fetches + 1
    /\ task' = [task EXCEPT ![t] = [pc |-> "fetching", now |-> clock, value |-> fetches + 1,
                                    hit |-> FALSE, age |-> Age]]
    /\ UNCHANGED <<service, pool_data_cache, cache_timestamp, clock, ticks, stored_at, completed>>
    /\ UNCHANGED cacheFrame

\* FetchReturns writing the cache fields in two steps of which a
\* cancellation keeps only the first
CancelStoring(t) ==
    /\ task[t].pc = "fetching"
    /\ pool_data_cache' = task[t].value
    /\ task' = [task EXCEPT ![t].pc = "cancelled"]
    /\ UNCHANGED <<service, cache_timestamp, clock, ticks, fetches, stored_at, completed>>
    /\ UNCHANGED cacheFrame

\* the awaited fetch raises CancelledError, which except Exception does not
\* catch: the call ends without writing anything
Cancel(t) ==
    /\ task[t].pc = "fetching"
    /\ task' = [task EXCEPT ![t].pc = "cancelled"]
    /\ UNCHANGED <<service, pool_data_cache, cache_timestamp, clock, ticks, fetches,
                   stored_at, completed>>
    /\ UNCHANGED cacheFrame

\* the fetch returns its value: both fields are written with no suspension
\* point between them (the timestamp is the now of line 70), and the value
\* is returned
FetchReturns(t) ==
    /\ task[t].pc = "fetching"
    /\ pool_data_cache' = task[t].value
    /\ cache_timestamp' = task[t].now
    /\ stored_at' = clock
    /\ completed' = Append(completed, <<task[t].value, task[t].now>>)
    /\ task' = [task EXCEPT ![t].pc = "returned"]
    /\ UNCHANGED <<service, clock, ticks, fetches>>
    /\ UNCHANGED cacheFrame

\* market_data.py 135-137: the RPC fails inside get_pool_metrics, which
\* catches the exception and returns _get_empty_metrics(); _get_pool_data
\* finds the dict non-empty (line 83) and stores and returns it like metrics
FetchReturnsEmpty(t) ==
    /\ service = "RiskAgent"
    /\ task[t].pc = "fetching"
    /\ pool_data_cache' = EmptyMetrics(task[t].value)
    /\ cache_timestamp' = task[t].now
    /\ stored_at' = clock
    /\ completed' = Append(completed, <<EmptyMetrics(task[t].value), task[t].now>>)
    /\ task' = [task EXCEPT ![t].pc = "returned", ![t].value = EmptyMetrics(@)]
    /\ UNCHANGED <<service, clock, ticks, fetches>>
    /\ UNCHANGED cacheFrame

\* the fetch raises: get_pool_history re-raises and writes nothing.  (A
\* failure inside MarketDataService.get_pool_metrics never reaches
\* _get_pool_data: it is caught there and a metrics dict is returned.)
FetchRaises(t) ==
    /\ service = "HistoricalDataService"
    /\ task[t].pc = "fetching"
    /\ task' = [task EXCEPT ![t].pc = "raised"]
    /\ UNCHANGED <<service, pool_data_cache, cache_timestamp, clock, ticks, fetches,
                   stored_at, completed>>
    /\ UNCHANGED cacheFrame

\* the caller has the outcome of its call
Resume(t) ==
    /\ task[t].pc \in {"returned", "raised", "cancelled"}
    /\ task' = [task EXCEPT ![t] = IdleTask]
    /\ UNCHANGED <<service, pool_data_cache, cache_timestamp, clock, ticks, fetches,
                   stored_at, completed>>
    /\ UNCHANGED cacheFrame

(***************************************************************************)
(* NLIRouter (core/nli.py)                                                 *)
(***************************************************************************)
Agents == {"router", "base", "risk", "lp_avax", "image", "deployment"}

Handlers == Agents \ {"router"}

NoCalls == [h \in Handlers |-> 0]

\* routing["agent_type"], routing["confidence"], routing['reasoning']: the
\* str of the exception the first failing lookup raises, "" when all succeed
LookupError(r) ==
    IF r.k # "dict" THEN "list indices must be integers or slices, not str"
    ELSE IF "agent_type" \notin DOMAIN r.v THEN "'agent_type'"
    ELSE IF "confidence" \notin DOMAIN r.v THEN "'confidence'"
    ELSE IF "reasoning" \notin DOMAIN r.v THEN "'reasoning'"
    ELSE ""

\* AttachRoutingTo keeping a routing entry the handler set (setdefault)
AttachRoutingKeep(response, r) ==
    [key \in DOMAIN response \cup {"routing"} |->
        IF key = "routing" /\ "routing" \notin DOMAIN response
        THEN [agent |-> r.agent_type, confidence |-> r.confidence, reasoning |-> r.reasoning]
        ELSE response[key]]

\* response["routing"] = {agent, confidence, reasoning}
AttachRoutingTo(response, r) ==
    [key \in DOMAIN response \cup {"routing"} |->
        IF key = "routing"
        THEN [agent |-> r.agent_type, confidence |-> r.confidence, reasoning |-> r.reasoning]
        ELSE response[key]]

\* ErrorResponse labelled with the default agent instead of "error"
ErrorResponseBase(e) ==
    [error |-> e, routing |-> [agent |-> "base", confidence |-> 0, reasoning |-> e]]

ErrorResponse(e) ==
    [error |-> e, routing |-> [agent |-> "error", confidence |-> 0, reasoning |-> e]]

UniChainResponse == [error |-> "UniChain LP functionality coming soon!"]

ChainPromptResponse ==
    [message |-> "Please specify which chain you'd like to provide liquidity on"]

\* OnAvalanche knowing the chain by its full name only
OnAvalancheByName(msg) == Contains(lower(msg), KwAvalanche)

\* line 80: "avalanche" in message_lower or "avax" in message_lower
OnAvalanche(msg) == Contains(lower(msg), KwAvalanche) \/ Contains(lower(msg), KwAvax)

OnUnichain(msg) == Contains(lower(msg), KwUnichain)

RouterAtRest ==
    /\ pc = "idle"
    /\ message = <<>>
    /\ context = NoneValue
    /\ delegate = NoneValue
    /\ routing = NoneValue
    /\ collab = NoneValue
    /\ outcome = NoneValue
    /\ result = NoneValue
    /\ calls = NoCalls
    /\ instances = {}
    /\ classifier_prompt = NoneValue
    /\ constructed = [a \in Agents |-> 0]

Init ==
    /\ RouterAtRest
    /\ FnAtRest
    /\ CacheAtRest
    /\ WaitAtRest
    /\ ViewAtRest
    /\ HistAtRest

\* AgentProperty constructing a new instance on every access
AgentPropertyFresh(agent) ==
    /\ instances' = instances \cup {agent}
    /\ constructed' = [constructed EXCEPT ![agent] = IF @ < 2 THEN @ + 1 ELSE @]

\* the properties of lines 22-56: if self._x_agent is None, construct and
\* keep one; return the one kept
AgentProperty(agent) ==
    /\ instances' = instances \cup {agent}
    /\ constructed' = [constructed EXCEPT ![agent] = IF agent \in instances THEN @ ELSE @ + 1]

\* a caller awaits route_message(m, c)
RouteMessage ==
    /\ pc = "idle"
    /\ \E m \in Messages, c \in Contexts :
          /\ message' = m
          /\ context' = c
    /\ pc' = "classify"
    /\ delegate' = NoneValue
    /\ routing' = NoneValue
    /\ collab' = NoneValue
    /\ outcome' = NoneValue
    /\ result' = NoneValue
    /\ calls' = NoCalls
    /\ classifier_prompt' = NoneValue
    /\ UNCHANGED <<instances, constructed>>
    /\ UNCHANGED routerFrame

\* line 61: routing = await self.router_agent.analyze_intent(message, context)
AnalyzeIntent ==
    /\ pc = "classify"
    /\ \E o \in RouterDelegateOutcomes :
          /\ delegate' = o
          /\ routing' = analyze_intent(message, context, o)
    /\ classifier_prompt' = analyze_intent_prompt(message, context)
    /\ AgentProperty("router")
    /\ pc' = "dispatch"
    /\ UNCHANGED <<message, context, collab, outcome, result, calls>>
    /\ UNCHANGED routerFrame

\* lines 65-69: a lookup in routing raises
LookupFails ==
    /\ pc = "dispatch"
    /\ LookupError(routing) # ""
    /\ outcome' = [k |-> "raise", e |-> LookupError(routing)]
    /\ pc' = "respond"
    /\ UNCHANGED <<message, context, delegate, routing, collab, result, calls, instances,
                   classifier_prompt, constructed>>
    /\ UNCHANGED routerFrame

Selected(agent_type) ==
    /\ pc = "dispatch"
    /\ LookupError(routing) = ""
    /\ routing.v.agent_type = agent_type

\* Invoke with a handler that stores the message in the context it was given
InvokeStoring(handler) ==
    /\ AgentProperty(handler)
    /\ calls' = [calls EXCEPT ![handler] = @ + 1]
    /\ pc' = "respond"
    /\ context' = [k |-> "dict",
                   items |-> OrEmpty(context).items
                             \o <<[key |-> "last_message", val |-> StrValue(message)]>>]
    /\ UNCHANGED <<message, delegate, routing, result, classifier_prompt>>
    /\ UNCHANGED routerFrame

\* lines 75-103: the selected handler's process_message(message, context)
\* is awaited; neither the router nor a handler assigns into context
Invoke(handler) ==
    /\ AgentProperty(handler)
    /\ calls' = [calls EXCEPT ![handler] = @ + 1]
    /\ pc' = "respond"
    /\ UNCHANGED <<message, context, delegate, routing, result, classifier_prompt>>
    /\ UNCHANGED routerFrame

DispatchDeployment ==
    /\ Selected("deployment")
    /\ \E o \in DeploymentOutcomes :
          /\ collab' = o
          /\ outcome' = DeploymentProcessMessage(message, context, o)
    /\ Invoke("deployment")

DispatchRisk ==
    /\ Selected("risk")
    /\ \E o \in RiskOutcomes :
          /\ collab' = o
          /\ outcome' = RiskProcessMessage(message, context, o)
    /\ Invoke("risk")

DispatchTradingAvalanche ==
    /\ Selected("trading")
    /\ OnAvalanche(message)
    /\ \E o \in LpOutcomes :
          /\ collab' = o
          /\ outcome' = LpProcessMessage(message, context, o)
    /\ Invoke("lp_avax")

DispatchTradingUniChain ==
    /\ Selected("trading")
    /\ ~OnAvalanche(message)
    /\ OnUnichain(message)
    /\ outcome' = [k |-> "return", v |-> UniChainResponse]
    /\ pc' = "respond"
    /\ UNCHANGED <<message, context, delegate, routing, collab, result, calls, instances,
                   classifier_prompt, constructed>>
    /\ UNCHANGED routerFrame

DispatchTradingNoChain ==
    /\ Selected("trading")
    /\ ~OnAvalanche(message)
    /\ ~OnUnichain(message)
    /\ outcome' = [k |-> "return", v |-> ChainPromptResponse]
    /\ pc' = "respond"
    /\ UNCHANGED <<message, context, delegate, routing, collab, result, calls, instances,
                   classifier_prompt, constructed>>
    /\ UNCHANGED routerFrame

DispatchImage ==
    /\ Selected("image")
    /\ \E o \in ImageOutcomes :
          /\ collab' = o
          /\ outcome' = ImageProcessMessage(message, context, o)
    /\ Invoke("image")

\* DispatchBase with a dispatch table that has no default entry: an
\* agent_type other than "base" raises
DispatchBaseStrict ==
    /\ pc = "dispatch"
    /\ LookupError(routing) = ""
    /\ routing.v.agent_type \notin {"deployment", "risk", "trading", "image"}
    /\ IF routing.v.agent_type = "base"
       THEN /\ \E o \in BaseOutcomes(message) :
                  /\ collab' = o
                  /\ outcome' = BaseProcessMessage(message, context, o)
            /\ Invoke("base")
       ELSE /\ outcome' = [k |-> "raise", e |-> "'" \o routing.v.agent_type \o "'"]
            /\ pc' = "respond"
            /\ UNCHANGED <<message, context, delegate, routing, collab, result, calls, instances,
                           classifier_prompt, constructed>>
            /\ UNCHANGED routerFrame

DispatchBase ==
    /\ pc = "dispatch"
    /\ LookupError(routing) = ""
    /\ routing.v.agent_type \notin {"deployment", "risk", "trading", "image"}
    /\ \E o \in BaseOutcomes(message) :
          /\ collab' = o
          /\ outcome' = BaseProcessMessage(message, context, o)
    /\ Invoke("base")

\* lines 106-113: the handler returned; its mapping gets the routing entry
AttachRouting ==
    /\ pc = "respond"
    /\ outcome.k = "return"
    /\ result' = DictValue(AttachRoutingTo(outcome.v, routing.v))
    /\ pc' = "done"
    /\ UNCHANGED <<message, context, delegate, routing, collab, outcome, calls, instances,
                   classifier_prompt, constructed>>
    /\ UNCHANGED routerFrame

\* lines 115-124: except Exception as e
CatchException ==
    /\ pc = "respond"
    /\ outcome.k = "raise"
    /\ result' = DictValue(ErrorResponse(outcome.e))
    /\ pc' = "done"
    /\ UNCHANGED <<message, context, delegate, routing, collab, outcome, calls, instances,
                   classifier_prompt, constructed>>
    /\ UNCHANGED routerFrame

\* the caller has its Response; the router keeps its agents
Return ==
    /\ pc = "done"
    /\ pc' = "idle"
    /\ message' = <<>>
    /\ context' = NoneValue
    /\ delegate' = NoneValue
    /\ routing' = NoneValue
    /\ collab' = NoneValue
    /\ outcome' = NoneValue
    /\ result' = NoneValue
    /\ calls' = NoCalls
    /\ classifier_prompt' = NoneValue
    /\ UNCHANGED <<instances, constructed>>
    /\ UNCHANGED routerFrame

Next ==
    \/ RouteMessage
    \/ AnalyzeIntent
    \/ LookupFails
    \/ DispatchDeployment
    \/ DispatchRisk
    \/ DispatchTradingAvalanche
    \/ DispatchTradingUniChain
    \/ DispatchTradingNoChain
    \/ DispatchImage
    \/ DispatchBase
    \/ AttachRouting
    \/ CatchException
    \/ Return

(***************************************************************************)
(* RiskAgent.analyze_pool and get_historical_performance                   *)
(* (core/agents/risk_agent.py 94-134, 226-245), called one after the other *)
(* on one RiskAgent, and the HistoricalDataService each call constructs    *)
(***************************************************************************)
\* HistoricalDataService(): the cache fields as __init__ leaves them
\* (historical.py 38-40)
HistoricalDataService == [history_cache |-> NoData, history_timestamp |-> NoTime]

\* historical.py 47-49 on the instance h at time now
HistoryCacheValid(h, now) ==
    /\ h.history_cache # NoData
    /\ h.history_timestamp # NoTime
    /\ seconds(now - h.history_timestamp) < HistoryCacheDuration

\* risk_agent.py 97 and 231, then 107 and 233: historical_data is
\* constructed by the call and get_pool_history is awaited on it; the fetch
\* it runs when the instance has no valid entry succeeds or raises
HistoryCall(which) ==
    /\ Len(history_log) < MaxCalls
    /\ LET historical_data == HistoricalDataService
           hit == HistoryCacheValid(historical_data, clock)
       IN  \E ok \in IF hit THEN {TRUE} ELSE BOOLEAN :
              history_log' = Append(history_log,
                                    [call |-> which, at |-> clock, hit |-> hit, success |-> ok])

\* one analyze_pool call from line 97 to its return: _get_pool_data on the
\* agent's own cache, then the history of the service constructed at line 97
AnalyzePool ==
    /\ service = "RiskAgent"
    /\ \A t \in Tasks : task[t].pc = "idle"
    /\ IF CacheValid(clock)
       THEN UNCHANGED <<pool_data_cache, cache_timestamp, fetches, stored_at, completed>>
       ELSE /\ fetches < MaxFetches
            /\ fetches' = fetches + 1
            /\ \E value \in {fetches + 1, EmptyMetrics(fetches + 1)} :
                  /\ pool_data_cache' = value
                  /\ completed' = Append(completed, <<value, clock>>)
            /\ cache_timestamp' = clock
            /\ stored_at' = clock
    /\ HistoryCall("analyze_pool")
    /\ UNCHANGED <<service, clock, ticks, task>>
    /\ UNCHANGED histFrame

\* one get_historical_performance call from line 231 to its return
GetHistoricalPerformance ==
    /\ service = "RiskAgent"
    /\ HistoryCall("get_historical_performance")
    /\ UNCHANGED cacheVars
    /\ UNCHANGED histFrame

NextHistory ==
    \/ Tick
    \/ AnalyzePool
    \/ GetHistoricalPerformance

(***************************************************************************)
(* The agent endpoint (api/views.py): a POST /agent request is validated   *)
(* and, when accepted, handed to route_message of the module's NLIRouter   *)
(***************************************************************************)
ViewMessages == {MsgHello, MsgAvalanchePools, MsgUnichain}

\* request.data.get('message'): None when the key is absent, else the text
RequestMessages == {NoneValue, StrValue(<<>>)} \cup {StrValue(m) : m \in ViewMessages}

\* an item of the request's history: not a mapping, or a mapping that holds
\* or lacks each of the keys role and content (turn gives their values)
RequestItems ==
    {[k |-> "str"]}
    \cup { [k |-> "dict", has_role |-> r, has_content |-> c, turn |-> t] :
             r \in BOOLEAN, c \in BOOLEAN, t \in Turns }

RequestHistories == SeqsUpTo(RequestItems, MaxHistory)

RiskToleranceItem == [key |-> "risk_tolerance", val |-> StrValue("aggressive")]

DeploymentParamsItem ==
    [key |-> "deployment_params", val |-> DictValue([name |-> "Wapu", symbol |-> "WAPU"])]

\* the context of the request: the key absent, null, or a mapping with
\* extras and possibly a history that is a list or is not
RequestContexts ==
    {[k |-> "absent"], NoneValue, EmptyContext,
     [k |-> "dict", items |-> <<RiskToleranceItem>>],
     [k |-> "dict", items |-> <<DeploymentParamsItem>>]}
    \cup { [k |-> "dict", items |-> e \o <<[key |-> "history", val |-> hv]>>] :
             e \in {<<>>, <<RiskToleranceItem>>},
             hv \in {StrValue(<<"x">>)} \cup {ListValue(h) : h \in RequestHistories} }

\* request.data: a JSON array, or a JSON object with message and context
Requests ==
    {[k |-> "list"]}
    \cup { [k |-> "dict", message |-> m, context |-> c] :
             m \in RequestMessages, c \in RequestContexts }

BadRequest(text) == [k |-> "response", status |-> 400, body |-> [error |-> text]]

ServerError(text) == [k |-> "response", status |-> 500, body |-> [error |-> text]]

\* ValidItem accepting an item that holds one of the two keys
ValidItemEither(item) == item.k = "dict" /\ (item.has_role \/ item.has_content)

\* line 153, negated: the item is a dict that holds role and holds content
ValidItem(item) == item.k = "dict" /\ item.has_role /\ item.has_content

\* lines 160-164: the message is required; the router gets history alone
CheckMessage(msg, history) ==
    IF msg.k = "none" \/ msg.v = <<>>
    THEN BadRequest("Message is required")
    ELSE [k |-> "route", message |-> msg.v,
          context |-> [k |-> "dict",
                       items |-> <<[key |-> "history", val |-> ListValue(history)]>>]]

\* lines 142-164 up to the await: the Response of an early return, the
\* exception raised, or the arguments of the route_message call
agent(data) ==
    IF data.k # "dict"
    THEN [k |-> "raise", e |-> "'list' object has no attribute 'get'"]
    ELSE LET ctx == IF data.context.k = "absent" THEN EmptyContext ELSE data.context
         IN  IF ctx.k = "dict" /\ HasKey(ctx, "history")
             THEN LET conversation_history == DictGet(ctx, "history", NoneValue)
                  IN  IF conversation_history.k # "list"
                      THEN BadRequest("Context history must be a list")
                      ELSE IF \E i \in 1..Len(conversation_history.v) :
                                 ~ValidItem(conversation_history.v[i])
                           THEN BadRequest("Invalid history item format")
                           ELSE CheckMessage(data.message,
                                             [i \in 1..Len(conversation_history.v) |->
                                                 conversation_history.v[i].turn])
             ELSE CheckMessage(data.message, <<>>)

\* a POST arrives; lines 142-164 run up to the first await
AgentRequest ==
    /\ vpc = "idle"
    /\ pc = "idle"
    /\ \E data \in Requests :
          /\ request' = data
          /\ LET v == agent(data)
             IN  IF v.k = "route"
                 THEN /\ routed' = routed + 1
                      /\ message' = v.message
                      /\ context' = v.context
                      /\ pc' = "classify"
                      /\ vpc' = "routing"
                      /\ view_response' = NoneValue
                 ELSE /\ view_response' = IF v.k = "raise" THEN ServerError(v.e) ELSE v
                      /\ vpc' = "done"
                      /\ UNCHANGED <<routed, message, context, pc>>
    /\ UNCHANGED <<delegate, routing, collab, outcome, result, calls, instances,
                   classifier_prompt, constructed>>
    /\ UNCHANGED viewFrame

\* line 165: route_message returned; its mapping is the body of the Response
AgentResponds ==
    /\ vpc = "routing"
    /\ pc = "done"
    /\ view_response' = [k |-> "response", status |-> 200, body |-> result]
    /\ vpc' = "done"
    /\ pc' = "returned"
    /\ UNCHANGED <<request, routed>>
    /\ UNCHANGED <<message, context, delegate, routing, collab, outcome, result, calls,
                   instances, classifier_prompt, constructed>>
    /\ UNCHANGED viewFrame

\* the client has its Response; the module keeps its router and its agents
AgentDone ==
    /\ vpc = "done"
    /\ vpc' = "idle"
    /\ request' = NoneValue
    /\ view_response' = NoneValue
    /\ routed' = 0
    /\ pc' = "idle"
    /\ message' = <<>>
    /\ context' = NoneValue
    /\ delegate' = NoneValue
    /\ routing' = NoneValue
    /\ collab' = NoneValue
    /\ outcome' = NoneValue
    /\ result' = NoneValue
    /\ calls' = NoCalls
    /\ classifier_prompt' = NoneValue
    /\ UNCHANGED <<instances, constructed>>
    /\ UNCHANGED viewFrame

NextView ==
    \/ AgentRequest
    \/ AnalyzeIntent
    \/ LookupFails
    \/ DispatchDeployment
    \/ DispatchRisk
    \/ DispatchTradingAvalanche
    \/ DispatchTradingUniChain
    \/ DispatchTradingNoChain
    \/ DispatchImage
    \/ DispatchBase
    \/ AttachRouting
    \/ CatchException
    \/ AgentResponds
    \/ AgentDone

(***************************************************************************)
(* Calls of AIAgent's functions on their own: the number extraction of     *)
(* process_message (lines 282-296) on a list of words, and                 *)
(* calculate_crypto_amount with either direction                           *)
(***************************************************************************)
WordChars == {"1", "5", ".", ",", "x"}

RECURSIVE WordsUpTo(_)
WordsUpTo(n) ==
    IF n = 0 THEN {<<>>}
    ELSE LET shorter == WordsUpTo(n - 1)
         IN  shorter \cup {Append(w, c) : w \in shorter, c \in WordChars}

\* the words message.lower().split() can give: never empty, never with a blank
Words == WordsUpTo(MaxWordLen) \ {<<>>}

TailWords == {<<"2">>, <<"e", "t", "h">>}

WordLists == {<<w>> : w \in Words} \cup {<<w, v>> : w \in Words, v \in TailWords}

Amounts == {Frac(0, 1), Frac(1, 2), Frac(2, 1), Frac(3000, 1), Frac(-2, 1)}

ConversionTypes == {"to_usd", "from_usd"}

(***************************************************************************)
(* TradingAgent.process_message (core/agents/trading_agent.py 147-209)     *)
(***************************************************************************)
MsgAddBoth == <<"A", "d", "d", " ", "l", "i", "q", "u", "i", "d", "i", "t", "y", " ", "1", "0", " ", "A", "V", "A", "X", " ", "a", "n", "d", " ", "1", "5", "0", " ", "U", "S", "D", "C">>
MsgDepositUsdc == <<"d", "e", "p", "o", "s", "i", "t", " ", "2", "0", " ", "u", "s", "d", "c">>
MsgDepositAvax == <<"D", "e", "p", "o", "s", "i", "t", " ", "1", ".", "5", " ", "A", "V", "A", "X">>
MsgProvide == <<"p", "r", "o", "v", "i", "d", "e", " ", "l", "i", "q", "u", "i", "d", "i", "t", "y">>
MsgDepositWithdraw == <<"d", "e", "p", "o", "s", "i", "t", " ", "o", "r", " ", "w", "i", "t", "h", "d", "r", "a", "w">>
MsgWithdraw == <<"W", "i", "t", "h", "d", "r", "a", "w">>
MsgExitSwap == <<"e", "x", "i", "t", " ", "p", "o", "s", "i", "t", "i", "o", "n", " ", "o", "r", " ", "s", "w", "a", "p">>
MsgSwap == <<"S", "w", "a", "p", " ", "5", " ", "A", "V", "A", "X", " ", "f", "o", "r", " ", "U", "S", "D", "C">>
MsgTrade == <<"t", "r", "a", "d", "e">>

TradingMessages ==
    { MsgAddBoth, MsgDepositUsdc, MsgDepositAvax, MsgProvide, MsgDepositWithdraw,
      MsgWithdraw, MsgExitSwap, MsgSwap, MsgTrade, MsgHello }

TradingContexts ==
    { NoneValue, EmptyContext,
      [k |-> "dict",
       items |-> <<[key |-> "price_range",
                    val |-> DictValue([min |-> Frac(19, 1), max |-> Frac(21, 1)])]>>] }

\* pool_data['current_price'] of get_pool_metrics: a price, or the '0' of
\* the empty metrics it returns when the RPC fails
TradingPoolOutcomes == {[current_price |-> Frac(20, 1)], [current_price |-> Frac(0, 1)]}

\* lines 154, 179, 184
AddPhrases == {<<"a", "d", "d", " ", "l", "i", "q", "u", "i", "d", "i", "t", "y">>, <<"p", "r", "o", "v", "i", "d", "e", " ", "l", "i", "q", "u", "i", "d", "i", "t", "y">>, <<"d", "e", "p", "o", "s", "i", "t">>}

RemovePhrases == {<<"r", "e", "m", "o", "v", "e", " ", "l", "i", "q", "u", "i", "d", "i", "t", "y">>, <<"w", "i", "t", "h", "d", "r", "a", "w">>, <<"e", "x", "i", "t", " ", "p", "o", "s", "i", "t", "i", "o", "n">>}

SwapPhrases == {<<"s", "w", "a", "p">>, <<"t", "r", "a", "d", "e">>, <<"e", "x", "c", "h", "a", "n", "g", "e">>}

\* w matches \d+\.?\d* as a whole
RegexNumber(w) ==
    /\ w # <<>>
    /\ Head(w) \in Digits
    /\ \A i \in 1..Len(w) : w[i] \in Digits \cup {"."}
    /\ Cardinality({i \in 1..Len(w) : w[i] = "."}) <= 1

RECURSIVE SkipBlanks(_, _)
\* \s* from position p on
SkipBlanks(s, p) == IF p <= Len(s) /\ s[p] = " " THEN SkipBlanks(s, p + 1) ELSE p

\* group(1) of re.search(r'(\d+\.?\d*)\s*(?:t1|t2)', s) for tokens {t1, t2}:
\* the leftmost number that blanks and a token follow, <<>> for no match
re_search(s, tokens) ==
    LET follows(j) == LET p == SkipBlanks(s, j + 1)
                      IN  \E tok \in tokens : startswith(SubSeq(s, p, Len(s)), tok)
        found == {m \in (1..Len(s)) \X (1..Len(s)) :
                     /\ m[1] <= m[2]
                     /\ RegexNumber(SubSeq(s, m[1], m[2]))
                     /\ follows(m[2])}
    IN  IF found = {} THEN <<>>
        ELSE LET m == CHOOSE m \in found :
                          \A n \in found : m[1] < n[1] \/ (m[1] = n[1] /\ m[2] >= n[2])
             IN  SubSeq(s, m[1], m[2])

\* TradingAgent.prepare_add_liquidity, lines 46-114: the default range is
\* 5% either side of the current price
TradingPrepareAddLiquidity(avax_amount, usdc_amount, price_range, o) ==
    DictValue([network |-> "avalanche", chain_id |-> 43114,
               transaction |-> [function |-> "mint",
                                value |-> IF avax_amount.num > 0 THEN "avax_wei" ELSE "0"],
               metadata |-> [current_price |-> o.current_price,
                             price_range |-> IF price_range.k = "none"
                                             THEN [min |-> Mul(o.current_price, Frac(95, 100)),
                                                   max |-> Mul(o.current_price, Frac(105, 100))]
                                             ELSE price_range.v,
                             expected_position |-> [avax |-> avax_amount,
                                                    usdc |-> usdc_amount]]])

\* lines 203-209: except Exception as e
TradingFailed(e, lowered, c) ==
    DictValue([error |-> "Failed to process trading request: " \o e,
               message |-> lowered, context |-> c])

\* lines 194-201
NotUnderstood ==
    DictValue([error |-> "Could not understand trading action. Please specify if you want to add liquidity, remove liquidity, or swap tokens.",
               examples |-> <<"Add 10 AVAX and 150 USDC to the pool",
                              "Remove my liquidity position",
                              "Swap 5 AVAX for USDC">>])

\* what process_message returns: a dict, or None.  prepare_remove_liquidity
\* (lines 137-140) is `pass` and returns None.  `import re` stands inside
\* the add-liquidity branch (line 156), which makes re a local name of the
\* whole function: the swap branch (line 186) reads it unbound and raises
\* UnboundLocalError
TradingProcessMessage(msg, c, o) ==
    LET lowered == lower(msg)
        any(phrases) == \E phrase \in phrases : Contains(lowered, phrase)
        avax_match == re_search(lowered, {<<"a", "v", "a", "x">>, <<"w", "a", "v", "a", "x">>})
        usdc_match == re_search(lowered, {<<"u", "s", "d", "c">>, <<"u", "s", "d">>})
        avax_found == IF avax_match # <<>> THEN float(avax_match).val ELSE Frac(0, 1)
        usdc_found == IF usdc_match # <<>> THEN float(usdc_match).val ELSE Frac(0, 1)
        one_given == (avax_found.num = 0 \/ usdc_found.num = 0)
                     /\ ~(avax_found.num = 0 /\ usdc_found.num = 0)
        price_range == IF c.k = "dict" /\ c.items # <<>>
                       THEN DictGet(c, "price_range", NoneValue)
                       ELSE NoneValue
    IN  IF any(AddPhrases)
        THEN IF one_given /\ avax_found.num = 0 /\ o.current_price.num = 0
             THEN TradingFailed("float division by zero", lowered, c)
             ELSE TradingPrepareAddLiquidity(
                      IF one_given /\ avax_found.num = 0
                      THEN Div(usdc_found, o.current_price) ELSE avax_found,
                      IF one_given /\ usdc_found.num = 0
                      THEN Mul(avax_found, o.current_price) ELSE usdc_found,
                      price_range, o)
        ELSE IF any(RemovePhrases) THEN NoneValue
        ELSE IF any(SwapPhrases)
             THEN TradingFailed("local variable 're' referenced before assignment", lowered, c)
             ELSE NotUnderstood

FunctionCalls ==
    {[k |-> "call", f |-> "find_numbers", message_words |-> l] : l \in WordLists}
    \cup {[k |-> "call", f |-> "calculate_crypto_amount", amount |-> a, symbol |-> y,
           conversion_type |-> d, price |-> o] :
              a \in Amounts, y \in {"btc", "eth"}, d \in ConversionTypes, o \in PriceOutcomes}
    \cup {[k |-> "call", f |-> "process_message", message |-> m, context |-> c, pool |-> o] :
              m \in TradingMessages, c \in TradingContexts, o \in TradingPoolOutcomes}

InitFn ==
    /\ fcall \in FunctionCalls
    /\ fret = NoneValue
    /\ RouterAtRest
    /\ CacheAtRest
    /\ WaitAtRest
    /\ ViewAtRest
    /\ HistAtRest

\* lines 282-296 run on message_words
CallFindNumbers ==
    /\ fcall.f = "find_numbers"
    /\ fret = NoneValue
    /\ fret' = [k |-> "return", v |-> ListValue(FindNumbers(fcall.message_words))]
    /\ UNCHANGED fcall
    /\ UNCHANGED fnFrame

\* calculate_crypto_amount(amount, symbol, conversion_type)
CallCalculateCryptoAmount ==
    /\ fcall.f = "calculate_crypto_amount"
    /\ fret = NoneValue
    /\ fret' = calculate_crypto_amount(fcall.amount, fcall.symbol, fcall.conversion_type,
                                       fcall.price)
    /\ UNCHANGED fcall
    /\ UNCHANGED fnFrame

\* await TradingAgent().process_message(message, context)
CallTradingProcessMessage ==
    /\ fcall.f = "process_message"
    /\ fret = NoneValue
    /\ fret' = [k |-> "return",
                v |-> TradingProcessMessage(fcall.message, fcall.context, fcall.pool)]
    /\ UNCHANGED fcall
    /\ UNCHANGED fnFrame

NextFn ==
    \/ CallFindNumbers
    \/ CallCalculateCryptoAmount
    \/ CallTradingProcessMessage

InitCache ==
    /\ service \in Services
    /\ pool_data_cache = NoData
    /\ cache_timestamp = NoTime
    /\ clock = 0
    /\ ticks = 0
    /\ fetches = 0
    /\ task = [t \in Tasks |-> IdleTask]
    /\ stored_at = NoTime
    /\ completed = <<>>
    /\ RouterAtRest
    /\ FnAtRest
    /\ WaitAtRest
    /\ ViewAtRest
    /\ HistAtRest

NextCache ==
    \/ Tick
    \/ \E t \in Tasks : ServeCache(t)
    \/ \E t \in Tasks : StartFetch(t)
    \/ \E t \in Tasks : FetchReturns(t)
    \/ \E t \in Tasks : FetchReturnsEmpty(t)
    \/ \E t \in Tasks : FetchRaises(t)
    \/ \E t \in Tasks : Cancel(t)
    \/ \E t \in Tasks : Resume(t)

(***************************************************************************)
(* The external calls of one route_message call.  Each is a blocking call  *)
(* of a client library, made without a timeout argument: client.run of     *)
(* Swarm / OpenAI (router_agent.py 93, base_agent.py 239, lp_avax_agent.py *)
(* 207, deployment_agent.py 96 and 162), client.images.generate            *)
(* (image_agent.py 26), web3 calls (data/market_data.py) and requests.get  *)
(* (base_agent.py 79, 107, 128, 180).  The OpenAI and web3 clients give up *)
(* by themselves after their default timeout; requests.get without         *)
(* timeout= waits for as long as the server keeps the connection open.     *)
(***************************************************************************)
ExternalCalls == {"classifier", "llm", "image_api", "rpc", "dollar_api", "coin_api", "price_api"}

\* the calls whose client library has a default timeout
LibraryBounded == {"classifier", "llm", "image_api", "rpc"}

\* get_coin_id and get_crypto_price of one price lookup
PriceLookupCalls == <<"coin_api", "price_api">>

\* the external calls of AIAgent.process_message(msg), in order, when each
\* answers (a dollar API that answers ends the call)
BaseCalls(msg) ==
    LET message_words == split(lower(msg))
    IN  (IF is_dollar_query(msg) THEN <<"dollar_api">> ELSE <<>>)
        \o <<"llm">>
        \o (IF FindSymbol(message_words) = "" THEN <<>>
            ELSE PriceLookupCalls
                 \o (IF FindNumbers(message_words) = <<>> THEN <<>> ELSE PriceLookupCalls))

\* the external calls of the handler route_message dispatches agent_type to
HandlerCalls(agent_type, msg) ==
    CASE agent_type = "deployment" -> <<"llm", "llm">>
      [] agent_type = "risk"       -> <<"rpc">>
      [] agent_type = "trading"    -> IF OnAvalanche(msg) THEN <<"llm", "rpc">> ELSE <<>>
      [] agent_type = "image"      -> <<"image_api">>
      [] OTHER                     -> BaseCalls(msg)

\* the request makes the calls of plan, or has its Response when none is left
Proceed(plan) ==
    /\ wclock' = 0
    /\ IF plan = <<>>
       THEN /\ wpc' = "done"
            /\ wcall' = "none"
            /\ wplan' = <<>>
       ELSE /\ wpc' = "waiting"
            /\ wcall' = Head(plan)
            /\ wplan' = Tail(plan)

\* route_message(m, ...) is called and blocks in the classifier's client.run
Request ==
    /\ wpc = "idle"
    /\ \E m \in Messages : wmessage' = m
    /\ wpc' = "waiting"
    /\ wcall' = "classifier"
    /\ wplan' = <<>>
    /\ wclock' = 0
    /\ UNCHANGED waitFrame

\* the collaborator of call c answers
Answers(c) ==
    /\ wpc = "waiting"
    /\ wcall = c
    /\ CASE c = "classifier" -> \E a \in {"base", "risk", "trading", "image", "deployment"} :
                                    Proceed(HandlerCalls(a, wmessage))
         [] c = "dollar_api" -> Proceed(<<>>)
         [] OTHER            -> Proceed(wplan)
    /\ UNCHANGED wmessage
    /\ UNCHANGED waitFrame

\* call c raises (a refused connection, an error status, the timeout of the
\* client library): analyze_intent falls back to the base handler,
\* get_dollar_rates reports no success and process_message goes on, any
\* other failure ends the request with a Response
Fails(c) ==
    /\ wpc = "waiting"
    /\ wcall = c
    /\ CASE c = "classifier" -> Proceed(HandlerCalls("base", wmessage))
         [] c = "dollar_api" -> Proceed(wplan)
         [] OTHER            -> Proceed(<<>>)
    /\ UNCHANGED wmessage
    /\ UNCHANGED waitFrame

\* time passes while the request is blocked in a call: no step of the code
\* reacts to it
Waits ==
    /\ wpc = "waiting"
    /\ wclock' = (wclock + 1) % ClockPhases
    /\ UNCHANGED <<wpc, wmessage, wcall, wplan>>
    /\ UNCHANGED waitFrame

\* the caller gets its Response
Respond ==
    /\ wpc = "done"
    /\ wpc' = "idle"
    /\ wmessage' = <<>>
    /\ UNCHANGED <<wcall, wplan, wclock>>
    /\ UNCHANGED waitFrame

InitWait ==
    /\ WaitAtRest
    /\ RouterAtRest
    /\ FnAtRest
    /\ CacheAtRest
    /\ ViewAtRest
    /\ HistAtRest

NextWait ==
    \/ Request
    \/ \E c \in ExternalCalls : Answers(c)
    \/ \E c \in ExternalCalls : Fails(c)
    \/ Waits
    \/ Respond

\* the code runs on, time passes, and a client library with a default
\* timeout ends its call; nothing makes a server answer
FairWait ==
    /\ WF_vars(Respond)
    /\ WF_vars(Waits)
    /\ \A c \in LibraryBounded : WF_vars(Answers(c) \/ Fails(c))

(***************************************************************************)
(* Properties                                                              *)
(***************************************************************************)
Invoked(h) == calls[h] = 1

SomeHandlerInvoked == \E h \in Handlers : Invoked(h)

Unparsable == delegate.k = "call" /\ delegate.arguments.k = "malformed"

\* C1: route_message never propagates an exception: when a lookup in the
\* classifier's result or the selected handler raised e, the call returns
\* exactly {error: str(e), routing: {agent: "error", confidence: 0,
\* reasoning: str(e)}}; every call ends with a mapping.
C1_RouterReturnsErrorResponse ==
    pc = "done" =>
        /\ result.k = "dict"
        /\ outcome.k = "raise" =>
              result.v = [error |-> outcome.e,
                          routing |-> [agent |-> "error", confidence |-> 0,
                                       reasoning |-> outcome.e]]

C1_Witness == pc = "done" /\ outcome.k = "raise" /\ Invoked("base")

C3_RoutingAgentInEnum ==
    (pc = "done" /\ message # <<>> /\ context = EmptyContext)
        => /\ "routing" \in DOMAIN result.v
           /\ result.v.routing.agent \in IntentEnum

\* C4 as stated: a reply without a function call, and a reply whose function
\* call's arguments cannot be parsed, both give agent_type base with
\* confidence 0.5.
C4_Original ==
    (pc = "dispatch" /\ (delegate.k = "text" \/ Unparsable))
        => /\ routing.k = "dict"
           /\ routing.v.agent_type = "base"
           /\ routing.v.confidence = 50

\* C4 amended: a reply without a function call gives {agent_type: base,
\* confidence: 0.5, reasoning: "Failed to determine specific intent"}; a
\* reply whose function call's arguments cannot be parsed gives {agent_type:
\* base, confidence: 0, reasoning: "Error: " + the parse error}; neither
\* raises.
C4_FallbackOnlyWithoutCall ==
    pc = "dispatch" =>
        /\ delegate.k = "text" =>
              routing = [k |-> "dict",
                         v |-> [agent_type |-> "base", confidence |-> 50,
                                reasoning |-> "Failed to determine specific intent"]]
        /\ Unparsable =>
              routing = [k |-> "dict",
                         v |-> [agent_type |-> "base", confidence |-> 0,
                                reasoning |-> "Error: " \o JSONDecodeErrorText]]

C4_Witness == pc = "dispatch" /\ Unparsable /\ routing.v.confidence = 0

\* C5: analyze_intent never raises: when the delegated LLM call, or the
\* parsing of its reply, raises e, analyze_intent returns {agent_type: base,
\* confidence: 0, reasoning: "Error: " + str(e)}.
C5_AnalyzeIntentContainsErrors ==
    pc = "dispatch" =>
        /\ routing.k # "none"
        /\ delegate.k = "raise" =>
              /\ routing.k = "dict"
              /\ routing.v.agent_type = "base"
              /\ routing.v.confidence = 0
              /\ routing.v.reasoning = "Error: " \o delegate.e
        /\ Unparsable =>
              /\ routing.k = "dict"
              /\ routing.v.agent_type = "base"
              /\ routing.v.confidence = 0

C5_Witness == pc = "dispatch" /\ delegate.k = "raise" /\ routing.v.confidence = 0

\* C6: when the selected handler returns a mapping, route_message returns
\* it with routing set to {agent, confidence, reasoning} of the classifier's
\* decision, every other key and value unchanged.
C6_OnlyRoutingReplaced ==
    (pc = "done" /\ outcome.k = "return") =>
        /\ DOMAIN result.v = DOMAIN outcome.v \cup {"routing"}
        /\ result.v.routing = [agent |-> routing.v.agent_type,
                               confidence |-> routing.v.confidence,
                               reasoning |-> routing.v.reasoning]
        /\ \A key \in DOMAIN outcome.v \ {"routing"} : result.v[key] = outcome.v[key]

C6_Witness ==
    /\ pc = "done"
    /\ outcome.k = "return"
    /\ "routing" \in DOMAIN outcome.v
    /\ "response" \in DOMAIN result.v
    /\ result.v.routing # outcome.v.routing

\* C7: no handler the router selects raises an exception to the router:
\* process_message always returns a mapping.
C7_HandlersNeverRaise ==
    (pc \in {"respond", "done"} /\ SomeHandlerInvoked) => outcome.k = "return"

\* C8: every mapping a handler's process_message returns has the keys
\* response, type, data and metadata, metadata holding timestamp, query and
\* context.
C8_UniformResponseShape ==
    (pc \in {"respond", "done"} /\ SomeHandlerInvoked /\ outcome.k = "return") =>
        /\ {"response", "type", "data", "metadata"} \subseteq DOMAIN outcome.v
        /\ {"timestamp", "query", "context"} \subseteq DOMAIN outcome.v.metadata

ResponseTypes ==
    {"general", "price_query", "conversion_query", "dollar_rates", "risk_assessment",
     "strategy_recommendation", "deployment_ready", "needs_image", "image_ready", "error"}

PriceMocked(p) ==
    /\ Invoked("base")
    /\ collab.swarm = "ok"
    /\ collab.run.k = "reply"
    /\ collab.price.k = "quote" => collab.price.usd = p
    /\ collab.price.k \in {"quote", "unused"}
    /\ collab.price2.k = "quote" => collab.price2.usd = p
    /\ collab.price2.k \in {"quote", "unused"}

ReplaceChar(s, c, d) == [i \in 1..Len(s) |-> IF s[i] = c THEN d ELSE s[i]]

\* the number a word denotes when '.' and ',' are both decimal separators
DecimalReading(w) == float(ReplaceChar(w, ",", "."))

\* C11: the number extraction accepts both '.' and ',' as decimal
\* separator: a word contributes the number it denotes with either
\* separator read as the decimal point ("1.5" and "1,5" both contribute
\* 1.5), and a word that denotes no number contributes nothing.
C11_BothDecimalSeparators ==
    (fcall.k = "call" /\ fcall.f = "find_numbers" /\ fret.k = "return"
        /\ Len(fcall.message_words) = 1) =>
        LET number == DecimalReading(fcall.message_words[1])
        IN  fret.v.v = IF number.ok THEN <<number.val>> ELSE <<>>

\* the price lookup of the call gave the unit price p
QuoteIs(p) == fcall.price.k = "quote" /\ fcall.price.usd = p

Calculated == fcall.k = "call" /\ fcall.f = "calculate_crypto_amount" /\ fret.k # "none"

\* C12: with a price lookup that gives a unit price p # 0,
\* calculate_crypto_amount returns the conversion with rate = p and
\* output_amount = a * p for to_usd, a / p for from_usd; 2 at 3000 to_usd
\* gives 6000 and 3000 at 3000 from_usd gives 1.
C12_ConversionArithmetic ==
    (Calculated /\ fcall.price.k = "quote" /\ fcall.price.usd.num # 0) =>
        LET a == fcall.amount
            p == fcall.price.usd
        IN  /\ fret.k = "return"
            /\ ~HasError(fret.v)
            /\ fret.v.rate = p
            /\ fret.v.input_amount = a
            /\ fret.v.output_amount.den > 0
            /\ fcall.conversion_type = "to_usd" =>
                  fret.v.output_amount.num * a.den * p.den = a.num * p.num * fret.v.output_amount.den
            /\ fcall.conversion_type = "from_usd" =>
                  fret.v.output_amount.num * a.den * p.num = a.num * p.den * fret.v.output_amount.den
            /\ (a = Frac(2, 1) /\ p = Frac(3000, 1) /\ fcall.conversion_type = "to_usd") =>
                  fret.v.output_amount = Frac(6000, 1)
            /\ (a = Frac(3000, 1) /\ p = Frac(3000, 1) /\ fcall.conversion_type = "from_usd") =>
                  fret.v.output_amount = Frac(1, 1)

C12_Witness ==
    /\ Calculated
    /\ fcall.amount = Frac(3000, 1)
    /\ QuoteIs(Frac(3000, 1))
    /\ fcall.conversion_type = "from_usd"
    /\ fret.k = "return"
    /\ fret.v.output_amount = Frac(1, 1)

\* C13: with a price lookup that gives the unit price 0,
\* calculate_crypto_amount returns a mapping with an error entry, whatever
\* the direction, and raises nothing.
C13_ZeroPriceIsAnError ==
    (Calculated /\ QuoteIs(Frac(0, 1))) =>
        /\ fret.k = "return"
        /\ HasError(fret.v)

\* every call process_message makes answers, and every price lookup among
\* them gives the unit price p
LookupsGive(p) ==
    /\ Invoked("base")
    /\ collab.swarm = "ok"
    /\ collab.dollar.k \in {"ok", "unused"}
    /\ collab.run.k \in {"reply", "unused"}
    /\ collab.price.k \in {"quote", "unused"}
    /\ collab.price.k = "quote" => collab.price.usd = p
    /\ collab.price2.k \in {"quote", "unused"}
    /\ collab.price2.k = "quote" => collab.price2.usd = p

NumericWords(words) == {i \in 1..Len(words) : DecimalReading(words[i]).ok}

\* the number the first numeric word denotes
FirstNumber(words) ==
    DecimalReading(words[CHOOSE i \in NumericWords(words) :
                             \A h \in NumericWords(words) : i <= h]).val

\* C14: a message with a word that is an alias of the table and with at
\* least one numeric word, the price lookup giving the unit price p, makes
\* process_message return type conversion_query with data.output_amount =
\* (the first numeric word) * p and data.rate = p.
C14_ConversionQuery ==
    \A p \in Prices :
        LET message_words == split(lower(message))
        IN  (/\ pc = "respond"
             /\ LookupsGive(p)
             /\ FindSymbol(message_words) # ""
             /\ NumericWords(message_words) # {}) =>
                /\ outcome.k = "return"
                /\ outcome.v.type = "conversion_query"
                /\ outcome.v.data.output_amount = Mul(FirstNumber(message_words), p)
                /\ outcome.v.data.rate = p

\* C15: a read made when the time since the cache entry was stored is at
\* least the TTL (60 s for the pool data of a RiskAgent, 300 s for a
\* HistoricalDataService), a day or more included, is not served from the
\* cache: every call served from the cache found an entry younger than the
\* TTL.
C15_ExpiredEntryIsRefetched ==
    \A t \in Tasks :
        (task[t].pc = "returned" /\ task[t].hit) => task[t].age < cache_duration

\* C16 as stated: a call made less than the TTL after the cache was
\* populated is served from the cache, so no call that found an entry
\* younger than the TTL invokes the fetch.
C16_Original ==
    \A t \in Tasks :
        task[t].pc = "fetching" => ~(task[t].age >= 0 /\ task[t].age < cache_duration)

\* C16 amended: a call that reads the clock less than the TTL after the
\* call that populated the cache read it (the stored timestamp is the one
\* taken before the fetch, not the time the entry was written) returns the
\* cached value, which is the value the populating call returned, and
\* invokes no fetch and writes nothing.
C16_FreshEntryIsServed ==
    [][\A t \in Tasks :
          (/\ task[t].pc = "idle"
           /\ task'[t].pc # "idle"
           /\ pool_data_cache # NoData
           /\ cache_timestamp # NoTime
           /\ clock - cache_timestamp >= 0
           /\ clock - cache_timestamp < cache_duration) =>
              /\ task'[t].pc = "returned"
              /\ task'[t].value = pool_data_cache
              /\ <<pool_data_cache, cache_timestamp>> = completed[Len(completed)]
              /\ fetches' = fetches
              /\ UNCHANGED <<pool_data_cache, cache_timestamp>>]_vars

C16_Witness ==
    \E t \in Tasks :
        /\ task[t].pc = "returned"
        /\ task[t].hit
        /\ task[t].now > cache_timestamp
        /\ task[t].value = 1
        /\ fetches = 1

\* C17: whatever the interleaving of the calls on one RiskAgent and
\* wherever a call is cancelled, pool_data_cache and cache_timestamp are
\* both unset or are the pair one completed fetch wrote, namely the last
\* one to complete; every call that fetched returns the value of its own
\* fetch.
C17_CacheNeverTorn ==
    service = "RiskAgent" =>
        /\ pool_data_cache = NoData <=> cache_timestamp = NoTime
        /\ pool_data_cache = NoData <=> completed = <<>>
        /\ completed # <<>> => <<pool_data_cache, cache_timestamp>> = completed[Len(completed)]
        /\ \A t \in Tasks :
              (task[t].pc = "returned" /\ ~task[t].hit) =>
                 \E i \in 1..Len(completed) : completed[i] = <<task[t].value, task[t].now>>
        /\ \A i, j \in 1..Len(completed) : i # j => completed[i][1] # completed[j][1]

C17_Witness ==
    /\ service = "RiskAgent"
    /\ \A t \in Tasks : task[t].pc = "returned" /\ ~task[t].hit
    /\ Len(completed) = 2
    /\ completed[1][2] > completed[2][2]
    /\ <<pool_data_cache, cache_timestamp>> = completed[2]

\* C18: every route_message call ends with a Response, whatever
\* collaborator fails to answer: a request blocked in an external call
\* eventually has its Response.
C18_EveryRequestIsAnswered == (wpc = "waiting") ~> (wpc = "done")

\* the history of the context, <<>> when it has none
HistoryOf(c) ==
    IF c.k = "dict" /\ HasKey(c, "history") THEN DictGet(c, "history", ListValue(<<>>)).v ELSE <<>>

\* C19: for a context {history: [{role, content}, ...]} with a non-empty
\* history, the prompt analyze_intent builds holds a line for every turn of
\* the history, the most recent turn first, and then the current message.
C19_PromptRendersHistory ==
    (classifier_prompt.k = "prompt" /\ HistoryOf(context) # <<>>) =>
        LET history == HistoryOf(context)
        IN  /\ Len(classifier_prompt.conversation) = Len(history)
            /\ \A i \in 1..Len(history) :
                  LET turn == history[Len(history) + 1 - i]
                  IN  /\ classifier_prompt.conversation[i].role = turn.role
                      /\ classifier_prompt.conversation[i].text = StrValue(turn.content)
            /\ classifier_prompt.message = message

\* C20: over any sequence of route_message calls the class of each agent
\* (router, base, risk, liquidity, image, deployment) is constructed at
\* most once, and only when the agent is first needed: nothing is
\* constructed before the first call, the agents that exist are the ones
\* that were used, and the handler in use is the one instance ever made.
C20_AgentsConstructedOnce ==
    /\ \A a \in Agents : constructed[a] <= 1
    /\ \A a \in Agents : a \in instances <=> constructed[a] = 1
    /\ instances # {} => "router" \in instances
    /\ \A h \in Handlers : calls[h] = 1 => constructed[h] = 1
    /\ Cardinality({h \in Handlers : calls[h] = 1}) <= 1

C20_Witness ==
    /\ pc = "respond"
    /\ calls["base"] = 1
    /\ instances = Agents
    /\ \A a \in Agents : constructed[a] = 1

\* the history of a request: the list under context.history, if there is one
RequestHistory(d) ==
    IF d.k = "dict" /\ d.context.k = "dict" /\ HasKey(d.context, "history")
    THEN DictGet(d.context, "history", NoneValue)
    ELSE NoneValue

MessageAbsent(d) == d.k = "dict" /\ d.message.k = "none"

MessageEmpty(d) == d.k = "dict" /\ d.message.k = "str" /\ d.message.v = <<>>

HistoryNotList(d) == RequestHistory(d).k \notin {"none", "list"}

\* some item of the history holds neither role nor content
ItemLacksBoth(d) ==
    /\ RequestHistory(d).k = "list"
    /\ \E i \in 1..Len(RequestHistory(d).v) :
          LET item == RequestHistory(d).v[i]
          IN  item.k # "dict" \/ (~item.has_role /\ ~item.has_content)

\* some item of the history is not a mapping or misses role or misses content
ItemLacksEither(d) ==
    /\ RequestHistory(d).k = "list"
    /\ \E i \in 1..Len(RequestHistory(d).v) :
          LET item == RequestHistory(d).v[i]
          IN  item.k # "dict" \/ ~item.has_role \/ ~item.has_content

Rejected == vpc = "done" /\ view_response.status = 400 /\ routed = 0

\* C21 as stated: the endpoint answers 400 without calling route_message
\* when message is absent, history is not a list or an item lacks both role
\* and content, and calls route_message exactly once for every other request
C21_Original ==
    vpc = "done" =>
        IF MessageAbsent(request) \/ HistoryNotList(request) \/ ItemLacksBoth(request)
        THEN Rejected
        ELSE routed = 1

\* C21: a request whose body is a JSON object is answered 400 without a
\* route_message call when message is absent or empty, when context.history
\* is present and not a list, or when a history item is not a mapping
\* holding both role and content; a body that is not an object is answered
\* 500 without a call; every other request calls route_message exactly once
\* and is answered 200
C21_EndpointValidation ==
    /\ routed <= 1
    /\ vpc = "routing" => routed = 1
    /\ vpc = "done" =>
        IF request.k # "dict"
        THEN view_response.status = 500 /\ routed = 0
        ELSE IF \/ MessageAbsent(request) \/ MessageEmpty(request)
                \/ HistoryNotList(request) \/ ItemLacksEither(request)
             THEN Rejected
             ELSE routed = 1 /\ view_response.status = 200

\* a request with a message whose only history item holds role and no
\* content has been rejected
C21_Witness ==
    /\ Rejected
    /\ request.k = "dict"
    /\ request.message.k = "str" /\ request.message.v # <<>>
    /\ ItemLacksEither(request)
    /\ ~ItemLacksBoth(request)

\* C22: from the call of route_message to its return no step changes the
\* context the caller supplied: the mapping, its keys in order and its
\* history keep their values whatever handler runs and whatever it returns
C22_ContextNotMutated ==
    [][(pc \in {"classify", "dispatch", "respond"}) => (context' = context)]_vars

\* the deployment handler has run on a context that holds a history turn
C22_Witness ==
    /\ pc = "done"
    /\ calls["deployment"] = 1
    /\ context.k = "dict"
    /\ HasKey(context, "history")
    /\ Len(DictGet(context, "history", NoneValue).v) >= 1

\* the classifier's decision was trading and route_message has its response
TradingAnswered ==
    /\ pc = "done"
    /\ routing.k = "dict"
    /\ LookupError(routing) = ""
    /\ routing.v.agent_type = "trading"

\* the names of the handlers whose process_message was called
HandlersCalled == {h \in Handlers : calls[h] > 0}

\* C23: with a trading decision the Avalanche liquidity handler is called
\* exactly when the lower-cased message contains "avalanche" or "avax", even
\* if it also contains "unichain"; otherwise a message containing "unichain"
\* gets the 'coming soon' error and any other message the chain-selection
\* prompt, both without a handler call; routing.agent = trading is attached
\* in all three cases
C23_TradingDispatch ==
    TradingAnswered =>
        /\ result.v.routing.agent = "trading"
        /\ IF \/ Contains(lower(message), <<"a", "v", "a", "l", "a", "n", "c", "h", "e">>)
              \/ Contains(lower(message), <<"a", "v", "a", "x">>)
           THEN HandlersCalled = {"lp_avax"} /\ calls["lp_avax"] = 1
           ELSE /\ HandlersCalled = {}
                /\ IF Contains(lower(message), <<"u", "n", "i", "c", "h", "a", "i", "n">>)
                   THEN result.v.error = UniChainResponse.error
                   ELSE result.v.message = ChainPromptResponse.message

\* a trading message naming both chains went to the Avalanche handler
C23_Witness ==
    /\ TradingAnswered
    /\ message = MsgAvaxUnichain
    /\ calls["lp_avax"] = 1
    /\ result.v.routing.agent = "trading"

\* the items of the request's context other than history
Extras(d) ==
    IF d.k = "dict" /\ d.context.k = "dict"
    THEN {d.context.items[i] : i \in {j \in 1..Len(d.context.items) :
                                          d.context.items[j].key # "history"}}
    ELSE {}

\* C24: when a handler runs for an accepted request, the context it was
\* given holds every extra of the request's context with the value supplied
C24_ExtrasReachHandler ==
    (vpc = "routing" /\ pc \in {"respond", "done"} /\ HandlersCalled # {}) =>
        \A item \in Extras(request) :
            /\ HasKey(context, item.key)
            /\ DictGet(context, item.key, NoneValue) = item.val

\* C25: on a RiskAgent a fetch during which the RPC failed leaves nothing
\* behind: the cache never holds the placeholder metrics and no call of
\* _get_pool_data returns them
C25_FailedFetchNotCached ==
    service = "RiskAgent" =>
        /\ ~IsEmptyMetrics(pool_data_cache)
        /\ \A t \in Tasks : task[t].pc = "returned" => ~IsEmptyMetrics(task[t].value)

\* C30: no step of any interleaving of _get_pool_data calls on one
\* RiskAgent replaces cache_timestamp by an earlier time
C30_TimestampNeverDecreases ==
    [][(service = "RiskAgent" /\ cache_timestamp # NoTime) =>
          (cache_timestamp' >= cache_timestamp)]_vars

\* C26: of two analyze_pool or get_historical_performance calls on one
\* RiskAgent less than 300 s apart, the first having fetched the history,
\* the second is served from the historical cache and runs no fetch
C26_SecondCallServedFromCache ==
    \A i, j \in 1..Len(history_log) :
        (/\ i < j
         /\ history_log[i].success
         /\ history_log[j].at - history_log[i].at >= 0
         /\ history_log[j].at - history_log[i].at < HistoryCacheDuration) =>
            history_log[j].hit

\* the deployment handler has just returned to route_message
DeploymentRan == pc = "respond" /\ calls["deployment"] = 1

\* some turn of the context's history is a logo URL
HistoryHasLogo ==
    LET history == DictGet(OrEmpty(context), "history", ListValue(<<>>)).v
    IN  \E i \in 1..Len(history) :
           /\ SubSeq(history[i].content, 1, 4) = <<"h", "t", "t", "p">>
           /\ \/ Contains(history[i].content, <<"p", "n", "g">>)
              \/ Contains(history[i].content, <<"j", "p", "g">>)

\* the arguments the delegate extracted, a record without fields when its
\* reply held no call or the arguments were not JSON
Extracted ==
    IF collab.run.k = "call" /\ collab.run.arguments.k = "json"
    THEN collab.run.arguments.v.v
    ELSE [x \in {} |-> 0]

NameAndSymbol == {"name", "symbol"} \subseteq DOMAIN Extracted

\* what prepare_token_deployment returned, when it was called
Prepared == "response" \in DOMAIN outcome.v /\ outcome.v.response.k = "dict"

DeploymentPayload ==
    /\ Prepared
    /\ "type" \in DOMAIN outcome.v.response.v
    /\ outcome.v.response.v.type = "deployment_ready"

FollowUpPrompt == "response" \in DOMAIN outcome.v /\ outcome.v.response.k = "str"

DeploymentFailed ==
    \/ "error" \in DOMAIN outcome.v
    \/ Prepared /\ "error" \in DOMAIN outcome.v.response.v

\* C27: the deployment handler calls prepare_token_deployment, and returns
\* a deployment payload, only if the history holds a logo URL and the
\* extracted arguments hold a name and a symbol; in every other case that
\* does not fail it returns a follow-up prompt; the payload's total_supply
\* is the extracted one, or 1,000,000 when none was extracted
C27_DeploymentNeedsAllParameters ==
    DeploymentRan =>
        /\ Prepared => (HistoryHasLogo /\ NameAndSymbol)
        /\ (~DeploymentFailed /\ ~(HistoryHasLogo /\ NameAndSymbol)) => FollowUpPrompt
        /\ DeploymentPayload =>
              outcome.v.response.v.deployment_params.total_supply =
                  IF "total_supply" \in DOMAIN Extracted THEN Extracted.total_supply
                  ELSE 1000000

\* a payload went out with a supply the delegate extracted
C27_Witness ==
    /\ DeploymentRan
    /\ DeploymentPayload
    /\ "total_supply" \in DOMAIN Extracted
    /\ outcome.v.response.v.deployment_params.total_supply = Extracted.total_supply

\* C28: when the extracted arguments hold a name and a symbol and the
\* history holds no logo URL, the deployment handler, unless it fails,
\* returns the needs_image payload with the collected deployment_params
C28_NeedsImageReturned ==
    (DeploymentRan /\ NameAndSymbol /\ ~HistoryHasLogo /\ ~DeploymentFailed) =>
        /\ Prepared
        /\ outcome.v.response.v.type = "needs_image"
        /\ outcome.v.response.v.deployment_params.name = Extracted.name

TradingCalled == fcall.f = "process_message" /\ fret # NoneValue

SaysAny(phrases) == \E phrase \in phrases : Contains(lower(fcall.message), phrase)

\* C29: TradingAgent.process_message returns a mapping for every message
\* and context: for a message with an add-liquidity, remove-liquidity or
\* swap phrase a prepared transaction or an error mapping, for any other
\* message the 'could not understand' error mapping with its examples
C29_TradingAlwaysReturnsMapping ==
    TradingCalled =>
        /\ fret.k = "return"
        /\ fret.v.k = "dict"
        /\ IF SaysAny(AddPhrases) \/ SaysAny(RemovePhrases) \/ SaysAny(SwapPhrases)
           THEN "transaction" \in DOMAIN fret.v.v \/ "error" \in DOMAIN fret.v.v
           ELSE fret.v = NotUnderstood

Spec == Init /\ [][Next]_vars

SpecFn == InitFn /\ [][NextFn]_vars

SpecCache == InitCache /\ [][NextCache]_vars

SpecHistory == Init /\ [][NextHistory]_vars

SpecView == Init /\ [][NextView]_vars

SpecWait == InitWait /\ [][NextWait]_vars /\ FairWait

====
